---- MODULE Spec2Model ----
(***************************************************************************)
(* Model of the k8s event collector: the deduplicating ring buffer         *)
(* (RingEventBuffer) and the stash server (StashServer) that persists      *)
(* snapshots of it.                                                        *)
(***************************************************************************)
EXTENDS Integers, Sequences, FiniteSets, TLC

\* ------------------------------------------------------------------ bounds
MaxCap == 2          \* largest ring capacity explored
MaxUID == 3          \* number of distinct event identities
MaxOld == 1          \* stash files a previous run may have left behind
MaxTick == 2         \* seconds the clock goes through
MaxMaxStashes == 2   \* largest maxStashes explored
MaxCallbacks == 2    \* completion callbacks registered at most
MaxEntries == 2      \* entries of the stash directory at startup
MaxRules == 2        \* filters in a configuration
MaxTasks == 1        \* completion goroutines followed by the model

\* --------------------------------------------------------------- constants
Nil == 0             \* the nil Value of an unused ring slot
Free == "free"       \* an unheld mutex

\* StashStatus
StashStarted == "Started"
StashComplete == "Complete"
StashFailed == "Failed"
StashOther == "Other"    \* any StashStatus string that is none of the three

\* net/http status codes the handlers answer with
StatusOK == 200
StatusCreated == 201
StatusNotFound == 404
StatusMethodNotAllowed == 405
StatusInternalServerError == 500

UIDs == 1..MaxUID
BufThreads == {"w1", "w2"}
HttpThreads == {"h1"}
Handlers == {"h1", "h2"}   \* net/http serves every request on a goroutine of its own
AutoThreads == {"a1"}
Threads == BufThreads \cup Handlers \cup AutoThreads

\* a stash name is stashPrefix + the second it was taken at; the names of
\* a previous run come first
OldNames == 1..MaxOld
FirstSecond == MaxOld + 1
LastSecond == MaxOld + MaxTick
Names == 1..LastSecond

VARIABLES
    bufferSize,  \* the capacity NewRingEventBuffer was called with
    ring,        \* b.r: the slots of the ring, a sequence of UIDs or Nil
    pos,         \* b.r: the slot the ring pointer designates (write cursor)
    s,           \* b.s: the dedup index
    mx,          \* b.mx: Free or the thread holding the lock
    pc,          \* per thread: where it is in its current call
    arg,         \* per thread: the identity of the event passed to Add
    cursor,      \* per thread: slots already handed to the visitor by ring.Do
    visited,     \* per thread: the events the visitor of Do has received
    snap,        \* per thread: the traversal of the buffer when Do took the lock
    order,       \* identities in the order they were first passed to Add
    distinctOnly, \* TRUE while every Add so far carried a never-seen identity
    maxStashes,  \* dm.maxStashes
    now,         \* time.Now() at the granularity of tsFormat
    stashes,     \* dm.stashes: name -> Status
    files,       \* the stash directory: name -> payload of name + ".json"
    smx,         \* dm.stashesMutex: Free or the thread holding Lock
    readers,     \* dm.stashesMutex: the threads holding RLock
    name,        \* per thread: stashName
    stashStatus, \* per thread: the local stashStatus of createFileStash
    err,         \* per thread: what createFileStash returned
    resp,        \* per thread: the response written by the handler
    before,      \* per thread: was the name known when the trigger was called
    seen,        \* per thread: the status handleGetStash found for the name
    tmpBuff,     \* per thread: the local tmpBuff of EventCollector.Stash
    taken,       \* name -> what the buffer held when Stash ran Do for that name
    callbacks,   \* dm.stashCompleteCallbacks
    storage,     \* what os.ReadDir(dm.stashDir) lists at startup
    filters,     \* the filters createFilterFuncFromConfigFilters was given
    inEvent,     \* the event handed to the filter function, with its cluster
    accepted,    \* <<what the filter function returned>>, <<>> before the call
    cfg,         \* cfg.StashTrigger and cfg.StashOnWarnings as addActionFunc reads them
    ec,          \* which of FilterFunc, ActionFilterFunc, ActionCallback are set
    obj,         \* the value Run received from watcher.ResultChan()
    running,     \* the loop of Run has not stopped
    run,         \* what the handling of obj has done so far
    closeChannel, \* ec.closeChannel while the loop runs: what Stop has put in it
    tasks        \* the goroutines started for execStashCompleteFuncs, oldest first

bufVars == <<ring, pos, s, mx>>
thrVars == <<pc, arg, cursor, visited, snap>>
histVars == <<order, distinctOnly>>
ringVars == <<bufferSize, ring, pos, s, mx, arg, cursor, visited, snap, order, distinctOnly>>
srvVars == <<stashes, files, smx, readers>>
reqVars == <<name, stashStatus, err, resp, before, seen>>
cfgVars == <<callbacks, storage>>
cbVars == <<cfgVars, tasks>>
fltVars == <<filters, inEvent, accepted, cfg>>
colVars == <<ec, obj, running, run, closeChannel>>
extVars == <<tmpBuff, taken, cbVars, fltVars, colVars>>
stashVars == <<maxStashes, now, srvVars, reqVars, extVars>>
vars == <<ringVars, pc, stashVars>>

\* ------------------------------------------------------------ pure helpers
Range(f) == {f[i] : i \in DOMAIN f}

Min(a, b) == IF a <= b THEN a ELSE b

NoDuplicates(q) == \A i, j \in DOMAIN q : q[i] = q[j] => i = j

\* r.Next(): the slot after p in a ring of n slots
NextSlot(p, n) == (p % n) + 1

\* the slot reached from p after k calls of Next
SlotAt(p, k, n) == ((p - 1 + k) % n) + 1

\* ring.Do from slot p over the first k slots, nil Values skipped by the
\* closure Do passes (v == nil => return)
VisitedAfter(rg, p, k) ==
    LET n == Len(rg)
        inOrder == [i \in 1..k |-> rg[SlotAt(p, i - 1, n)]]
    IN  SelectSeq(inOrder, LAMBDA v : v # Nil)

\* what a complete Do hands to its visitor
Traversal(rg, p) == VisitedAfter(rg, p, Len(rg))

RingIds(rg) == Range(rg) \ {Nil}

\* Capacity(): b.r.Len()
Capacity == Len(ring)

\* Size(): len(b.s)
Size == Cardinality(s)

\* the last k elements of q
LastN(q, k) == SubSeq(q, Len(q) - k + 1, Len(q))

\* ----------------------------------------------------------------- buffer
\* NewRingEventBuffer(c)
NewRingEventBuffer(c) ==
    /\ ring = [i \in 1..c |-> Nil]
    /\ pos = 1
    /\ s = {}
    /\ mx = Free

\* where Add returns to: handleEventReceived goes on with the action filter,
\* any other caller is done
AfterAdd(t) == IF t \in AutoThreads THEN "ev_action" ELSE "idle"

\* a thread calls Add(e); it next waits for b.mx
CallAdd(t, e) ==
    /\ pc[t] = "idle"
    /\ pc' = [pc EXCEPT ![t] = "add_lock"]
    /\ arg' = [arg EXCEPT ![t] = e]
    /\ UNCHANGED <<stashVars, bufferSize, bufVars, cursor, visited, snap, histVars>>

\* Add entered without waiting for b.mx
AddLockNotTaken(t) ==
    /\ pc[t] = "add_lock"
    /\ pc' = [pc EXCEPT ![t] = "add_index"]
    /\ UNCHANGED <<stashVars, bufferSize, ring, pos, s, mx, arg, cursor, visited, snap, histVars>>

\* b.mx.Lock() in Add
AddLock(t) ==
    /\ pc[t] = "add_lock"
    /\ mx = Free
    /\ mx' = t
    /\ pc' = [pc EXCEPT ![t] = "add_index"]
    /\ UNCHANGED <<stashVars, bufferSize, ring, pos, s, arg, cursor, visited, snap, histVars>>

\* Add that leaves the identity of the overwritten slot in the index
AddIndexNoEvict(t) ==
    /\ pc[t] = "add_index"
    /\ order' = IF arg[t] \in Range(order) THEN order ELSE Append(order, arg[t])
    /\ distinctOnly' = (distinctOnly /\ arg[t] \notin Range(order))
    /\ IF arg[t] \in s
         THEN /\ mx' = Free
              /\ pc' = [pc EXCEPT ![t] = AfterAdd(t)]
              /\ arg' = [arg EXCEPT ![t] = Nil]
              /\ UNCHANGED s
         ELSE /\ s' = s \cup {arg[t]}
              /\ pc' = [pc EXCEPT ![t] = "add_store"]
              /\ UNCHANGED <<mx, arg>>
    /\ UNCHANGED <<stashVars, bufferSize, ring, pos, cursor, visited, snap>>

\* Add without the dedup test
AddIndexNoDedup(t) ==
    /\ pc[t] = "add_index"
    /\ order' = IF arg[t] \in Range(order) THEN order ELSE Append(order, arg[t])
    /\ distinctOnly' = (distinctOnly /\ arg[t] \notin Range(order))
    /\ s' = (IF ring[pos] # Nil THEN s \ {ring[pos]} ELSE s) \cup {arg[t]}
    /\ pc' = [pc EXCEPT ![t] = "add_store"]
    /\ UNCHANGED <<stashVars, bufferSize, ring, pos, mx, arg, cursor, visited, snap>>

\* the dedup test and the update of the index: a resident identity returns
\* at once (deferred Unlock), otherwise the identity of the slot's occupant
\* leaves the index and the new one enters it; on the nil ring of
\* ring.New(0) the read of b.r.Value is a nil dereference: the deferred
\* Unlock runs and the panic ends the process
AddIndex(t) ==
    /\ pc[t] = "add_index"
    /\ order' = IF arg[t] \in Range(order) THEN order ELSE Append(order, arg[t])
    /\ distinctOnly' = (distinctOnly /\ arg[t] \notin Range(order))
    /\ IF arg[t] \in s
         THEN /\ mx' = Free
              /\ pc' = [pc EXCEPT ![t] = AfterAdd(t)]
              /\ arg' = [arg EXCEPT ![t] = Nil]
              /\ UNCHANGED s
         ELSE IF ring = <<>>
         THEN /\ mx' = Free
              /\ pc' = [pc EXCEPT ![t] = "panic"]
              /\ UNCHANGED <<s, arg>>
         ELSE /\ s' = (IF ring[pos] # Nil THEN s \ {ring[pos]} ELSE s) \cup {arg[t]}
              /\ pc' = [pc EXCEPT ![t] = "add_store"]
              /\ UNCHANGED <<mx, arg>>
    /\ UNCHANGED <<stashVars, bufferSize, ring, pos, cursor, visited, snap>>

\* Add that returns to its caller with b.mx still held
AddStoreKeepsLock(t) ==
    /\ pc[t] = "add_store"
    /\ ring' = [ring EXCEPT ![pos] = arg[t]]
    /\ pos' = NextSlot(pos, Len(ring))
    /\ pc' = [pc EXCEPT ![t] = AfterAdd(t)]
    /\ arg' = [arg EXCEPT ![t] = Nil]
    /\ UNCHANGED <<stashVars, bufferSize, s, mx, cursor, visited, snap, histVars>>

\* Add that moves the ring pointer before it stores the event
AddStoreAfterAdvance(t) ==
    /\ pc[t] = "add_store"
    /\ ring' = [ring EXCEPT ![NextSlot(pos, Len(ring))] = arg[t]]
    /\ pos' = NextSlot(pos, Len(ring))
    /\ mx' = Free
    /\ pc' = [pc EXCEPT ![t] = AfterAdd(t)]
    /\ arg' = [arg EXCEPT ![t] = Nil]
    /\ UNCHANGED <<stashVars, bufferSize, s, cursor, visited, snap, histVars>>

\* b.r.Value = e; b.r = b.r.Next(); deferred Unlock
AddStore(t) ==
    /\ pc[t] = "add_store"
    /\ ring' = [ring EXCEPT ![pos] = arg[t]]
    /\ pos' = NextSlot(pos, Len(ring))
    /\ mx' = Free
    /\ pc' = [pc EXCEPT ![t] = AfterAdd(t)]
    /\ arg' = [arg EXCEPT ![t] = Nil]
    /\ UNCHANGED <<stashVars, bufferSize, s, cursor, visited, snap, histVars>>

\* a thread calls Do(f); it next waits for b.mx
CallDo(t) ==
    /\ pc[t] = "idle"
    /\ pc' = [pc EXCEPT ![t] = "do_lock"]
    /\ UNCHANGED <<stashVars, bufferSize, bufVars, arg, cursor, visited, snap, histVars>>

\* Do that lets go of b.mx before the visitor runs
DoLockReleasedBeforeVisit(t) ==
    /\ pc[t] = "do_lock"
    /\ mx = Free
    /\ pc' = [pc EXCEPT ![t] = "do_visit"]
    /\ cursor' = [cursor EXCEPT ![t] = 0]
    /\ visited' = [visited EXCEPT ![t] = <<>>]
    /\ snap' = [snap EXCEPT ![t] = Traversal(ring, pos)]
    /\ UNCHANGED <<stashVars, bufferSize, ring, pos, s, mx, arg, histVars>>

\* b.mx.Lock() in Do
DoLock(t) ==
    /\ pc[t] = "do_lock"
    /\ mx = Free
    /\ mx' = t
    /\ pc' = [pc EXCEPT ![t] = "do_visit"]
    /\ cursor' = [cursor EXCEPT ![t] = 0]
    /\ visited' = [visited EXCEPT ![t] = <<>>]
    /\ snap' = [snap EXCEPT ![t] = Traversal(ring, pos)]
    /\ UNCHANGED <<stashVars, bufferSize, ring, pos, s, arg, histVars>>

\* a traversal that starts at the first slot instead of the ring pointer
DoVisitFromFirstSlot(t) ==
    /\ pc[t] = "do_visit"
    /\ cursor[t] < Len(ring)
    /\ LET v == ring[cursor[t] + 1]
       IN  visited' = [visited EXCEPT ![t] = IF v = Nil THEN @ ELSE Append(@, v)]
    /\ cursor' = [cursor EXCEPT ![t] = @ + 1]
    /\ UNCHANGED <<stashVars, bufferSize, bufVars, pc, arg, snap, histVars>>

\* a traversal that lets go of b.mx once the visitor has run on a slot
DoVisitUnlocksBetweenSlots(t) ==
    /\ pc[t] = "do_visit"
    /\ cursor[t] < Len(ring)
    /\ LET v == ring[SlotAt(pos, cursor[t], Len(ring))]
       IN  visited' = [visited EXCEPT ![t] = IF v = Nil THEN @ ELSE Append(@, v)]
    /\ cursor' = [cursor EXCEPT ![t] = @ + 1]
    /\ mx' = Free
    /\ UNCHANGED <<stashVars, bufferSize, ring, pos, s, pc, arg, snap, histVars>>

\* one iteration of b.r.Do: the visitor runs on the next slot unless it is nil
DoVisit(t) ==
    /\ pc[t] = "do_visit"
    /\ cursor[t] < Len(ring)
    /\ LET v == ring[SlotAt(pos, cursor[t], Len(ring))]
       IN  visited' = [visited EXCEPT ![t] = IF v = Nil THEN @ ELSE Append(@, v)]
    /\ cursor' = [cursor EXCEPT ![t] = @ + 1]
    /\ UNCHANGED <<stashVars, bufferSize, bufVars, pc, arg, snap, histVars>>

\* b.r.Do has gone round the ring; deferred Unlock
DoReturn(t) ==
    /\ pc[t] = "do_visit"
    /\ cursor[t] = Len(ring)
    /\ mx' = Free
    /\ pc' = [pc EXCEPT ![t] = "idle"]
    /\ cursor' = [cursor EXCEPT ![t] = 0]
    /\ visited' = [visited EXCEPT ![t] = <<>>]
    /\ snap' = [snap EXCEPT ![t] = <<>>]
    /\ UNCHANGED <<stashVars, bufferSize, ring, pos, s, arg, histVars>>

\* ------------------------------------------------------------ stash server
\* json.NewEncoder(w).Encode(tmpBuff): a JSON array with one object per
\* event, in the order of the slice
JsonEncode(q) == [i \in 1..Len(q) |-> [uid |-> q[i]]]

NoResp == [code |-> 0, body |-> <<>>]

\* slices.Sort(stashNames): the names in ascending order
RECURSIVE SortedNames(_)
SortedNames(S) ==
    IF S = {} THEN <<>>
    ELSE LET least == CHOOSE x \in S : \A y \in S : x <= y
         IN  <<least>> \o SortedNames(S \ {least})

\* a purge that removes the newest names instead of the oldest
PurgedNamesNewestFirst(idx, m) ==
    IF Cardinality(DOMAIN idx) <= m THEN {}
    ELSE LET stashNames == SortedNames(DOMAIN idx)
             stashesToDelete == Cardinality(DOMAIN idx) - m
         IN  {stashNames[Len(stashNames) + 1 - i] : i \in 1..stashesToDelete}

\* a purge that counts and removes Complete stashes only
PurgedNamesCompleteOnly(idx, m) ==
    LET complete == {n \in DOMAIN idx : idx[n] = StashComplete}
    IN  IF Cardinality(complete) <= m THEN {}
        ELSE LET stashNames == SortedNames(complete)
                 stashesToDelete == Cardinality(complete) - m
             IN  {stashNames[i] : i \in 1..stashesToDelete}

\* the names purgeOldStashes(m) removes: none when len(dm.stashes) <= m,
\* otherwise the first len(dm.stashes) - m of the sorted names
PurgedNames(idx, m) ==
    IF Cardinality(DOMAIN idx) <= m THEN {}
    ELSE LET stashNames == SortedNames(DOMAIN idx)
             stashesToDelete == Cardinality(DOMAIN idx) - m
         IN  {stashNames[i] : i \in 1..Min(stashesToDelete, Len(stashNames))}

\* the number of iterations the loop of purgeOldStashes(m) sets out to make
StashesToDelete(idx, m) ==
    IF Cardinality(DOMAIN idx) <= m THEN 0 ELSE Cardinality(DOMAIN idx) - m

\* the loop reaches stashNames[len(stashNames)]: index out of range
PurgeOverruns(idx, m) == StashesToDelete(idx, m) > Cardinality(DOMAIN idx)

\* f restricted to the keys outside D (delete(dm.stashes, n), os.Remove)
Without(f, D) == [n \in DOMAIN f \ D |-> f[n]]

\* f with key n set to v (dm.stashes[n] = v, os.Create, a write)
With(f, n, v) == [m \in DOMAIN f \cup {n} |-> IF m = n THEN v ELSE f[m]]

\* http.ServeFile on getStashLocation(n)
ServeFile(fs, n) ==
    IF n \in DOMAIN fs THEN [code |-> StatusOK, body |-> fs[n]]
    ELSE [code |-> StatusNotFound, body |-> <<>>]

\* a handler that does not single out Failed stashes
HandleGetStashFailedNotSingledOut(idx, fs, n) ==
    IF n \notin DOMAIN idx
        THEN [code |-> StatusNotFound, body |-> <<>>]
    ELSE IF idx[n] = StashStarted
        THEN [code |-> StatusMethodNotAllowed, body |-> <<>>]
    ELSE IF idx[n] # StashComplete
        THEN [code |-> StatusInternalServerError, body |-> <<>>]
    ELSE ServeFile(fs, n)

\* the answer of handleGetStash for name n
HandleGetStash(idx, fs, n) ==
    IF n \notin DOMAIN idx \/ idx[n] = StashFailed
        THEN [code |-> StatusNotFound, body |-> <<>>]
    ELSE IF idx[n] = StashStarted
        THEN [code |-> StatusMethodNotAllowed, body |-> <<>>]
    ELSE IF idx[n] # StashComplete
        THEN [code |-> StatusInternalServerError, body |-> <<>>]
    ELSE ServeFile(fs, n)

\* loadExistingFileStashes: every stash file found is registered Complete
LoadExistingFileStashes(dir) == [n \in DOMAIN dir |-> StashComplete]

\* NewStashServer(stasher, m) over a stash directory dir
NewStashServer(m, dir) ==
    /\ maxStashes = m
    /\ files = dir
    /\ stashes = LoadExistingFileStashes(dir)
    /\ smx = Free
    /\ readers = {}
    /\ tasks = <<>>

\* stashesMutex.Lock() can return
CanLock == smx = Free /\ readers = {}

\* stashesMutex.RLock() can return
CanRLock == smx = Free

\* the handler or caller has returned; its locals are gone
Return(t) ==
    /\ pc[t] = "done"
    /\ pc' = [pc EXCEPT ![t] = "idle"]
    /\ name' = [name EXCEPT ![t] = Nil]
    /\ err' = [err EXCEPT ![t] = "none"]
    /\ resp' = [resp EXCEPT ![t] = NoResp]
    /\ before' = [before EXCEPT ![t] = FALSE]
    /\ seen' = [seen EXCEPT ![t] = "none"]
    /\ stashStatus' = [stashStatus EXCEPT ![t] = StashFailed]
    /\ UNCHANGED <<ringVars, extVars, maxStashes, now, srvVars>>

\* a second passes
Tick ==
    /\ now < LastSecond
    /\ now' = now + 1
    /\ UNCHANGED <<ringVars, pc, extVars, maxStashes, srvVars, reqVars>>

\* handlePostStashes: the name is taken from the clock, the purge comes next
CallPost(t) ==
    /\ pc[t] = "idle"
    /\ pc' = [pc EXCEPT ![t] = "purge_lock"]
    /\ name' = [name EXCEPT ![t] = now]
    /\ before' = [before EXCEPT ![t] = (now \in DOMAIN stashes)]
    /\ UNCHANGED <<ringVars, extVars, maxStashes, now, srvVars, stashStatus, err, resp, seen>>

\* stashesMutex.Lock() in purgeOldStashes
PurgeLock(t) ==
    /\ pc[t] = "purge_lock"
    /\ CanLock
    /\ smx' = t
    /\ pc' = [pc EXCEPT ![t] = "purge"]
    /\ UNCHANGED <<ringVars, extVars, maxStashes, now, stashes, files, readers, reqVars>>

\* purgeOldStashes(dm.maxStashes - 1) under the lock, then Unlock. When the
\* loop runs past the end of stashNames, every name is already deleted, the
\* index panics, the deferred Unlock runs and net/http recovers the panic of
\* the handler: the request ends without an answer and without a stash
PurgeOldStashes(t) ==
    /\ pc[t] = "purge"
    /\ LET gone == PurgedNames(stashes, maxStashes - 1)
       IN  /\ stashes' = Without(stashes, gone)
           /\ files' = Without(files, gone)
    /\ smx' = Free
    /\ IF PurgeOverruns(stashes, maxStashes - 1)
         THEN /\ err' = [err EXCEPT ![t] = "panic"]
              /\ pc' = [pc EXCEPT ![t] = "done"]
         ELSE /\ pc' = [pc EXCEPT ![t] = "create_lock"]
              /\ UNCHANGED err
    /\ UNCHANGED <<ringVars, extVars, maxStashes, now, readers,
                   name, stashStatus, resp, before, seen>>

\* CreateBufferStash: the name is taken from the clock, no purge
CallCreateBufferStash(t) ==
    /\ pc[t] = "idle"
    /\ pc' = [pc EXCEPT ![t] = "create_lock"]
    /\ name' = [name EXCEPT ![t] = now]
    /\ before' = [before EXCEPT ![t] = (now \in DOMAIN stashes)]
    /\ UNCHANGED <<ringVars, extVars, maxStashes, now, srvVars, stashStatus, err, resp, seen>>

\* stashesMutex.Lock() in createFileStash
CreateLock(t) ==
    /\ pc[t] = "create_lock"
    /\ CanLock
    /\ smx' = t
    /\ pc' = [pc EXCEPT ![t] = "create_check"]
    /\ UNCHANGED <<ringVars, extVars, maxStashes, now, stashes, files, readers, reqVars>>

\* what the caller of createFileStash does with its result: handlePostStashes
\* answers 500 or 201 with the name, CreateBufferStash drops it
Answer(t, e) ==
    IF t \in Handlers
        THEN IF e = "nil" THEN [code |-> StatusCreated, body |-> name[t]]
             ELSE [code |-> StatusInternalServerError, body |-> <<>>]
        ELSE NoResp

\* createFileStash without the test for a known name
CreateCheckOverwrites(t) ==
    /\ pc[t] = "create_check"
    /\ stashes' = With(stashes, name[t], StashStarted)
    /\ stashStatus' = [stashStatus EXCEPT ![t] = StashFailed]
    /\ pc' = [pc EXCEPT ![t] = "create_file"]
    /\ UNCHANGED <<ringVars, extVars, maxStashes, now, files, smx, readers,
                   name, err, resp, before, seen>>

\* createFileStash: a known name is refused (Unlock, error), otherwise the
\* entry is recorded Started and stashStatus starts as Failed
CreateCheck(t) ==
    /\ pc[t] = "create_check"
    /\ IF name[t] \in DOMAIN stashes
         THEN /\ smx' = Free
              /\ err' = [err EXCEPT ![t] = "exists"]
              /\ resp' = [resp EXCEPT ![t] = Answer(t, "exists")]
              /\ pc' = [pc EXCEPT ![t] = "done"]
              /\ UNCHANGED <<stashes, stashStatus>>
         ELSE /\ stashes' = With(stashes, name[t], StashStarted)
              /\ stashStatus' = [stashStatus EXCEPT ![t] = StashFailed]
              /\ pc' = [pc EXCEPT ![t] = "create_file"]
              /\ UNCHANGED <<smx, err, resp>>
    /\ UNCHANGED <<ringVars, extVars, maxStashes, now, files, readers, name, before, seen>>

\* a createFileStash whose status update is not deferred: the return on an
\* error of os.Create unlocks and leaves the entry Started
CreateFileErrorSkipsDefer(t, ok) ==
    /\ pc[t] = "create_file"
    /\ IF ok
         THEN /\ files' = With(files, name[t], <<>>)
              /\ pc' = [pc EXCEPT ![t] = "stash_do"]
              /\ UNCHANGED <<err, smx, resp>>
         ELSE /\ err' = [err EXCEPT ![t] = "io"]
              /\ smx' = Free
              /\ resp' = [resp EXCEPT ![t] = Answer(t, "io")]
              /\ pc' = [pc EXCEPT ![t] = "done"]
              /\ UNCHANGED files
    /\ UNCHANGED <<ringVars, extVars, maxStashes, now, stashes, readers,
                   name, stashStatus, before, seen>>

\* os.Create(filePath): an empty file, or an error that ends the call
CreateFile(t, ok) ==
    /\ pc[t] = "create_file"
    /\ IF ok
         THEN /\ files' = With(files, name[t], <<>>)
              /\ pc' = [pc EXCEPT ![t] = "stash_do"]
              /\ UNCHANGED err
         ELSE /\ err' = [err EXCEPT ![t] = "io"]
              /\ pc' = [pc EXCEPT ![t] = "create_defer"]
              /\ UNCHANGED files
    /\ UNCHANGED <<ringVars, extVars, maxStashes, now, stashes, smx, readers,
                   name, stashStatus, resp, before, seen>>

\* go dm.execStashCompleteFuncs(d): d points to the Stash of the index entry,
\* whose Status is still Started; a goroutine that finds no callback to run
\* does nothing and is left out
Spawned(t) ==
    IF callbacks = <<>> THEN tasks
    ELSE Append(tasks, [d |-> name[t], status |-> StashStarted, owner |-> t,
                        i |-> 0, log |-> <<>>])

\* dm.stashes[stashName].Status = stashStatus, as seen through the pointer d
\* the goroutine of this call holds
Settled(t) ==
    [k \in DOMAIN tasks |->
        IF tasks[k].owner = t
            THEN [tasks[k] EXCEPT !.status = stashStatus[t], !.owner = "none"]
            ELSE tasks[k]]

\* dm.stasher.Stash(f), first half: EventCollector.Stash runs Buffer.Do, which
\* holds the buffer lock from its first slot to its last, and the visitor
\* appends every event to tmpBuff
StashDo(t) ==
    /\ pc[t] = "stash_do"
    /\ mx = Free
    /\ tmpBuff' = [tmpBuff EXCEPT ![t] = Traversal(ring, pos)]
    /\ taken' = [taken EXCEPT ![name[t]] = Traversal(ring, pos)]
    /\ pc' = [pc EXCEPT ![t] = "create_write"]
    /\ UNCHANGED <<ringVars, cbVars, fltVars, colVars, maxStashes, now, srvVars, reqVars>>

\* a Stash that encodes the buffer as it is when the file is written
CreateWriteLiveBuffer(t, ok) ==
    /\ pc[t] = "create_write"
    /\ IF ok
         THEN /\ files' = With(files, name[t], JsonEncode(Traversal(ring, pos)))
              /\ stashStatus' = [stashStatus EXCEPT ![t] = StashComplete]
              /\ err' = [err EXCEPT ![t] = "nil"]
              /\ tasks' = Spawned(t)
         ELSE /\ err' = [err EXCEPT ![t] = "io"]
              /\ UNCHANGED <<files, stashStatus, tasks>>
    /\ pc' = [pc EXCEPT ![t] = "create_defer"]
    /\ UNCHANGED <<ringVars, tmpBuff, taken, cfgVars, fltVars, colVars, maxStashes, now, stashes,
                   smx, readers, name, resp, before, seen>>

\* dm.stasher.Stash(f), second half: encoder.Encode(tmpBuff) into the file;
\* an encoding error ends the call, otherwise stashStatus = StashComplete
CreateWrite(t, ok) ==
    /\ pc[t] = "create_write"
    /\ IF ok
         THEN /\ files' = With(files, name[t], JsonEncode(tmpBuff[t]))
              /\ stashStatus' = [stashStatus EXCEPT ![t] = StashComplete]
              /\ err' = [err EXCEPT ![t] = "nil"]
              /\ tasks' = Spawned(t)
         ELSE /\ err' = [err EXCEPT ![t] = "io"]
              /\ UNCHANGED <<files, stashStatus, tasks>>
    /\ pc' = [pc EXCEPT ![t] = "create_defer"]
    /\ UNCHANGED <<ringVars, tmpBuff, taken, cfgVars, fltVars, colVars, maxStashes, now, stashes,
                   smx, readers, name, resp, before, seen>>

\* a createFileStash that forgets the entry of a stash that failed
CreateDeferDropsFailed(t) ==
    /\ pc[t] = "create_defer"
    /\ stashes' = IF stashStatus[t] = StashFailed
                     THEN Without(stashes, {name[t]})
                     ELSE [stashes EXCEPT ![name[t]] = stashStatus[t]]
    /\ smx' = Free
    /\ resp' = [resp EXCEPT ![t] = Answer(t, err[t])]
    /\ pc' = [pc EXCEPT ![t] = "done"]
    /\ tmpBuff' = [tmpBuff EXCEPT ![t] = <<>>]
    /\ tasks' = Settled(t)
    /\ UNCHANGED <<ringVars, taken, cfgVars, fltVars, colVars, maxStashes, now, files, readers,
                   name, stashStatus, err, before, seen>>

\* the deferred calls of createFileStash: the entry takes stashStatus (the
\* goroutine started by this call sees it through d), then Unlock; the
\* caller receives the result and the locals of Stash are gone
CreateDefer(t) ==
    /\ pc[t] = "create_defer"
    /\ stashes' = [stashes EXCEPT ![name[t]] = stashStatus[t]]
    /\ smx' = Free
    /\ resp' = [resp EXCEPT ![t] = Answer(t, err[t])]
    /\ pc' = [pc EXCEPT ![t] = "done"]
    /\ tmpBuff' = [tmpBuff EXCEPT ![t] = <<>>]
    /\ tasks' = Settled(t)
    /\ UNCHANGED <<ringVars, taken, cfgVars, fltVars, colVars, maxStashes, now, files, readers,
                   name, stashStatus, err, before, seen>>

\* GET /stashes/<n>
CallGetStash(t, n) ==
    /\ pc[t] = "idle"
    /\ pc' = [pc EXCEPT ![t] = "get_rlock"]
    /\ name' = [name EXCEPT ![t] = n]
    /\ UNCHANGED <<ringVars, extVars, maxStashes, now, srvVars, stashStatus, err, resp, before, seen>>

\* stashesMutex.RLock() in handleGetStash
GetRLock(t) ==
    /\ pc[t] = "get_rlock"
    /\ CanRLock
    /\ readers' = readers \cup {t}
    /\ pc' = [pc EXCEPT ![t] = "get_read"]
    /\ UNCHANGED <<ringVars, extVars, maxStashes, now, stashes, files, smx, reqVars>>

\* the body of handleGetStash under the read lock, then RUnlock
GetRead(t) ==
    /\ pc[t] = "get_read"
    /\ resp' = [resp EXCEPT ![t] = HandleGetStash(stashes, files, name[t])]
    /\ seen' = [seen EXCEPT ![t] =
                   IF name[t] \in DOMAIN stashes THEN stashes[name[t]] ELSE "unknown"]
    /\ readers' = readers \ {t}
    /\ pc' = [pc EXCEPT ![t] = "done"]
    /\ UNCHANGED <<ringVars, extVars, maxStashes, now, stashes, files, smx,
                   name, stashStatus, err, before>>

\* GET /stashes
CallGetStashes(t) ==
    /\ pc[t] = "idle"
    /\ pc' = [pc EXCEPT ![t] = "list_rlock"]
    /\ UNCHANGED <<ringVars, extVars, maxStashes, now, srvVars, reqVars>>

\* stashesMutex.RLock() in handleGetStashes
ListRLock(t) ==
    /\ pc[t] = "list_rlock"
    /\ CanRLock
    /\ readers' = readers \cup {t}
    /\ pc' = [pc EXCEPT ![t] = "list_read"]
    /\ UNCHANGED <<ringVars, extVars, maxStashes, now, stashes, files, smx, reqVars>>

\* json.NewEncoder(rw).Encode(dm.stashes) under the read lock, then RUnlock
ListRead(t) ==
    /\ pc[t] = "list_read"
    /\ resp' = [resp EXCEPT ![t] = [code |-> StatusOK, body |-> stashes]]
    /\ readers' = readers \ {t}
    /\ pc' = [pc EXCEPT ![t] = "done"]
    /\ UNCHANGED <<ringVars, extVars, maxStashes, now, stashes, files, smx,
                   name, stashStatus, err, before, seen>>

\* GET /buffer
CallGetBuffer(t) ==
    /\ pc[t] = "idle"
    /\ pc' = [pc EXCEPT ![t] = "buf_do"]
    /\ UNCHANGED <<ringVars, extVars, maxStashes, now, srvVars, reqVars>>

\* handleGetBuffer, dm.stasher.Stash(rw), first half: Buffer.Do fills tmpBuff
\* under the buffer lock
BufferDo(t) ==
    /\ pc[t] = "buf_do"
    /\ mx = Free
    /\ tmpBuff' = [tmpBuff EXCEPT ![t] = Traversal(ring, pos)]
    /\ snap' = [snap EXCEPT ![t] = Traversal(ring, pos)]
    /\ pc' = [pc EXCEPT ![t] = "buf_write"]
    /\ UNCHANGED <<bufferSize, bufVars, arg, cursor, visited, histVars, taken, cbVars,
                   fltVars, colVars, maxStashes, now, srvVars, reqVars>>

\* a handler that answers with the buffer as it is when the response is written
BufferWriteLive(t, ok) ==
    /\ pc[t] = "buf_write"
    /\ IF ok
         THEN /\ resp' = [resp EXCEPT ![t] =
                            [code |-> StatusOK, body |-> JsonEncode(Traversal(ring, pos))]]
              /\ err' = [err EXCEPT ![t] = "nil"]
         ELSE /\ resp' = [resp EXCEPT ![t] =
                            [code |-> StatusInternalServerError, body |-> <<>>]]
              /\ err' = [err EXCEPT ![t] = "io"]
    /\ tmpBuff' = [tmpBuff EXCEPT ![t] = <<>>]
    /\ pc' = [pc EXCEPT ![t] = "done"]
    /\ UNCHANGED <<ringVars, taken, cbVars, fltVars, colVars, maxStashes, now, srvVars,
                   name, stashStatus, before, seen>>

\* handleGetBuffer, second half: encoder.Encode(tmpBuff) into the response;
\* an error of Stash is answered with 500
BufferWrite(t, ok) ==
    /\ pc[t] = "buf_write"
    /\ IF ok
         THEN /\ resp' = [resp EXCEPT ![t] =
                            [code |-> StatusOK, body |-> JsonEncode(tmpBuff[t])]]
              /\ err' = [err EXCEPT ![t] = "nil"]
         ELSE /\ resp' = [resp EXCEPT ![t] =
                            [code |-> StatusInternalServerError, body |-> <<>>]]
              /\ err' = [err EXCEPT ![t] = "io"]
    /\ tmpBuff' = [tmpBuff EXCEPT ![t] = <<>>]
    /\ pc' = [pc EXCEPT ![t] = "done"]
    /\ UNCHANGED <<ringVars, taken, cbVars, fltVars, colVars, maxStashes, now, srvVars,
                   name, stashStatus, before, seen>>

\* ---------------------------------------------------------- specifications
\* the locals of every thread before its first call
ThreadsIdle ==
    /\ pc = [t \in Threads |-> "idle"]
    /\ arg = [t \in Threads |-> Nil]
    /\ cursor = [t \in Threads |-> 0]
    /\ visited = [t \in Threads |-> <<>>]
    /\ snap = [t \in Threads |-> <<>>]
    /\ name = [t \in Threads |-> Nil]
    /\ stashStatus = [t \in Threads |-> StashFailed]
    /\ err = [t \in Threads |-> "none"]
    /\ resp = [t \in Threads |-> NoResp]
    /\ before = [t \in Threads |-> FALSE]
    /\ seen = [t \in Threads |-> "none"]
    /\ tmpBuff = [t \in Threads |-> <<>>]
    /\ taken = [n \in Names |-> <<>>]
    /\ order = <<>>
    /\ distinctOnly = TRUE

\* the handling record before anything was received
NoObj == [ok |-> TRUE, isEvent |-> FALSE, uid |-> Nil]
\* make(chan bool, 2): nothing sent, not closed
OpenChannel == [len |-> 0, closed |-> FALSE]

NoRun == [received |-> FALSE, handed |-> FALSE, filterFunc |-> "not called",
          actionFilterFunc |-> "not called", fired |-> 0,
          ring |-> <<>>, pos |-> 0, s |-> {}, stashes |-> <<>>, skipped |-> FALSE]

\* no collector is running
NoCollector ==
    /\ ec = [FilterFunc |-> FALSE, ActionFilterFunc |-> FALSE, ActionCallback |-> FALSE]
    /\ obj = NoObj
    /\ running = FALSE
    /\ run = NoRun
    /\ closeChannel = OpenChannel

\* a configuration without stashTriggers and with stashOnWarningEvents false
NoStashConfig ==
    [hasTrigger |-> FALSE, eventType |-> "", filtersNil |-> TRUE, eventFilters |-> <<>>,
     stashOnWarnings |-> FALSE]

\* no filter function is under test
NoFilterCall ==
    /\ filters = <<>>
    /\ inEvent = Nil
    /\ accepted = <<>>
    /\ cfg = NoStashConfig

\* a stash directory left by a previous run: payloads under old names
OldDirs == UNION {[D -> {<<>>}] : D \in SUBSET OldNames}

\* the buffer alone, used by concurrent callers of Add and Do
BufInit ==
    /\ bufferSize \in 1..MaxCap
    /\ NewRingEventBuffer(bufferSize)
    /\ NewStashServer(1, <<>>)
    /\ callbacks = <<>>
    /\ storage = {}
    /\ now = FirstSecond
    /\ ThreadsIdle
    /\ NoFilterCall
    /\ NoCollector

BufStep(t) ==
    \/ \E e \in UIDs : CallAdd(t, e)
    \/ AddLock(t)
    \/ AddIndex(t)
    \/ AddStore(t)
    \/ CallDo(t)
    \/ DoLock(t)
    \/ DoVisit(t)
    \/ DoReturn(t)

BufNext == \E t \in BufThreads : BufStep(t)

BufSpec == BufInit /\ [][BufNext]_vars

\* the stash server under concurrent HTTP requests and automatic triggers
Init ==
    /\ bufferSize = 1
    /\ NewRingEventBuffer(bufferSize)
    /\ \E m \in 1..MaxMaxStashes, dir \in OldDirs : NewStashServer(m, dir)
    /\ callbacks = <<>>
    /\ storage = {}
    /\ now = FirstSecond
    /\ ThreadsIdle
    /\ NoFilterCall
    /\ NoCollector

HttpStep(t) ==
    \/ CallPost(t)
    \/ PurgeLock(t)
    \/ PurgeOldStashes(t)
    \/ \E n \in Names : CallGetStash(t, n)
    \/ GetRLock(t)
    \/ GetRead(t)
    \/ CallGetStashes(t)
    \/ ListRLock(t)
    \/ ListRead(t)

CreateStep(t) ==
    \/ CreateLock(t)
    \/ CreateCheck(t)
    \/ \E ok \in BOOLEAN : CreateFile(t, ok)
    \/ StashDo(t)
    \/ \E ok \in BOOLEAN : CreateWrite(t, ok)
    \/ CreateDefer(t)
    \/ Return(t)

Next ==
    \/ Tick
    \/ \E t \in HttpThreads : HttpStep(t) \/ CreateStep(t)
    \/ \E t \in AutoThreads : CallCreateBufferStash(t) \/ CreateStep(t)

Spec == Init /\ [][Next]_vars

\* triggers issued one after another, one per second, none of them failing,
\* on a server that found no stash at startup; GET /stashes/<n> in between
SeqInit ==
    /\ bufferSize = 1
    /\ NewRingEventBuffer(bufferSize)
    /\ \E m \in 1..MaxMaxStashes : NewStashServer(m, <<>>)
    /\ callbacks = <<>>
    /\ storage = {}
    /\ now = 1
    /\ ThreadsIdle
    /\ NoFilterCall
    /\ NoCollector

SeqTick ==
    /\ \A t \in Threads : pc[t] = "idle"
    /\ now \in DOMAIN stashes
    /\ Tick

SeqPost(t) ==
    /\ now \notin DOMAIN stashes
    /\ CallPost(t)

SeqNext ==
    \/ SeqTick
    \/ \E t \in HttpThreads :
          \/ SeqPost(t)
          \/ PurgeLock(t)
          \/ PurgeOldStashes(t)
          \/ CreateLock(t)
          \/ CreateCheck(t)
          \/ CreateFile(t, TRUE)
          \/ StashDo(t)
          \/ CreateWrite(t, TRUE)
          \/ CreateDefer(t)
          \/ \E n \in Names : CallGetStash(t, n)
          \/ GetRLock(t)
          \/ GetRead(t)
          \/ Return(t)

SeqSpec == SeqInit /\ [][SeqNext]_vars

\* handleGetStash over every index: each name unknown or in any status, a
\* Complete stash with its payload file, any other with or without a file
AllStatuses == {StashStarted, StashComplete, StashFailed, StashOther}

GetInit ==
    /\ bufferSize = 1
    /\ NewRingEventBuffer(bufferSize)
    /\ maxStashes = 1
    /\ \E D \in SUBSET Names :
          /\ stashes \in [D -> AllStatuses]
          /\ \E F \in SUBSET Names : files = [n \in F |-> <<>>]
          /\ \A n \in D : stashes[n] = StashComplete => n \in DOMAIN files
    /\ smx = Free
    /\ readers = {}
    /\ callbacks = <<>>
    /\ storage = {}
    /\ tasks = <<>>
    /\ now = FirstSecond
    /\ ThreadsIdle
    /\ NoFilterCall
    /\ NoCollector

GetNext ==
    \E t \in HttpThreads :
        \/ \E n \in Names : CallGetStash(t, n)
        \/ GetRLock(t)
        \/ GetRead(t)
        \/ Return(t)

GetSpec == GetInit /\ [][GetNext]_vars

\* one producer adds events 1, 2, ... while stashes are triggered and
\* fetched over HTTP
Producers == {"w1"}

\* the producer hands the next new event to Add
ProduceNext(t) == \E e \in UIDs : e = Len(order) + 1 /\ CallAdd(t, e)

SnapInit ==
    /\ bufferSize \in 1..MaxCap
    /\ NewRingEventBuffer(bufferSize)
    /\ \E m \in 1..MaxMaxStashes : NewStashServer(m, <<>>)
    /\ callbacks = <<>>
    /\ storage = {}
    /\ now = FirstSecond
    /\ ThreadsIdle
    /\ NoFilterCall
    /\ NoCollector

SnapNext ==
    \/ Tick
    \/ \E t \in Producers :
          \/ ProduceNext(t)
          \/ AddLock(t)
          \/ AddIndex(t)
          \/ AddStore(t)
    \/ \E t \in HttpThreads :
          \/ CallPost(t)
          \/ PurgeLock(t)
          \/ PurgeOldStashes(t)
          \/ CreateLock(t)
          \/ CreateCheck(t)
          \/ CreateFile(t, TRUE)
          \/ StashDo(t)
          \/ CreateWrite(t, TRUE)
          \/ CreateDefer(t)
          \/ \E n \in Names : CallGetStash(t, n)
          \/ GetRLock(t)
          \/ GetRead(t)
          \/ Return(t)

SnapSpec == SnapInit /\ [][SnapNext]_vars

\* AddCompletionCallback(callback)
AddCompletionCallback(cbs, cb) == Append(cbs, cb)

\* the observer list after k registrations: callback c is the c-th one
\* handed to AddCompletionCallback
RECURSIVE Registered(_)
Registered(k) ==
    IF k = 0 THEN <<>> ELSE AddCompletionCallback(Registered(k - 1), k)

\* a goroutine that runs the callbacks last to first
ExecStashCompleteFuncsLastFirst(k) ==
    /\ k \in DOMAIN tasks
    /\ tasks[k].i < Len(callbacks)
    /\ tasks' = [tasks EXCEPT
                    ![k].i = @ + 1,
                    ![k].log = Append(@, [callback |-> callbacks[Len(callbacks) - tasks[k].i],
                                          name |-> tasks[k].d,
                                          status |-> tasks[k].status])]
    /\ UNCHANGED <<ringVars, pc, tmpBuff, taken, cfgVars, fltVars, colVars, maxStashes, now,
                   srvVars, reqVars>>

\* one iteration of the loop of execStashCompleteFuncs: callback(d), the
\* callback reading d.Name and d.Status
ExecStashCompleteFuncs(k) ==
    /\ k \in DOMAIN tasks
    /\ tasks[k].i < Len(callbacks)
    /\ tasks' = [tasks EXCEPT
                    ![k].i = @ + 1,
                    ![k].log = Append(@, [callback |-> callbacks[tasks[k].i + 1],
                                          name |-> tasks[k].d,
                                          status |-> tasks[k].status])]
    /\ UNCHANGED <<ringVars, pc, tmpBuff, taken, cfgVars, fltVars, colVars, maxStashes, now,
                   srvVars, reqVars>>

\* triggers over HTTP and from the collector on a server with completion
\* callbacks; the model follows the goroutines of MaxTasks stashes
CbInit ==
    /\ bufferSize = 1
    /\ NewRingEventBuffer(bufferSize)
    /\ \E m \in 1..MaxMaxStashes : NewStashServer(m, <<>>)
    /\ \E k \in 1..MaxCallbacks : callbacks = Registered(k)
    /\ storage = {}
    /\ now = FirstSecond
    /\ ThreadsIdle
    /\ NoFilterCall
    /\ NoCollector

\* POST /stashes while the model can still follow the goroutine it starts
CbPost(t) ==
    /\ Len(tasks) < MaxTasks
    /\ CallPost(t)

\* CreateBufferStash while the model can still follow the goroutine it starts
CbCreateBufferStash(t) ==
    /\ Len(tasks) < MaxTasks
    /\ CallCreateBufferStash(t)

CbNext ==
    \/ Tick
    \/ \E k \in 1..MaxTasks : ExecStashCompleteFuncs(k)
    \/ \E t \in HttpThreads :
          \/ CbPost(t)
          \/ PurgeLock(t)
          \/ PurgeOldStashes(t)
          \/ CreateStep(t)
    \/ \E t \in AutoThreads :
          \/ CbCreateBufferStash(t)
          \/ CreateStep(t)

CbSpec == CbInit /\ [][CbNext]_vars

\* a directory entry: its name is stashPrefix (or not) + a stem + an
\* extension, and it is a directory or a file
Extensions == {"", ".json", ".txt"}
DirEntries == [prefix : BOOLEAN, stem : OldNames, ext : Extensions, isDir : BOOLEAN]

\* the listings of at most MaxEntries entries
Listings == {D \in SUBSET DirEntries : Cardinality(D) <= MaxEntries}

\* strings.CutSuffix(d.Name(), stashFileExtension): the name without a
\* trailing ".json", any other name as it is
CutSuffix(e) == [stem |-> e.stem, ext |-> IF e.ext = ".json" THEN "" ELSE e.ext]

\* getStashLocation(n): the entry of the stash directory named n + ".json"
GetStashLocation(n) == [stem |-> n.stem, ext |-> n.ext \o ".json"]

\* http.ServeFile finds a file at getStashLocation(n)
PayloadExists(n) ==
    \E e \in storage :
        /\ ~e.isDir
        /\ e.prefix
        /\ e.stem = GetStashLocation(n).stem
        /\ e.ext = GetStashLocation(n).ext

\* a scan that registers directories too
IsStashFileOrDir(e) == e.prefix

\* !d.IsDir() && strings.HasPrefix(d.Name(), dm.stashPrefix)
IsStashFile(e) == ~e.isDir /\ e.prefix

\* the loop of loadExistingFileStashes over dirs, on top of the index idx
LoadDirs(idx, dirs) ==
    LET found == {CutSuffix(e) : e \in {d \in dirs : IsStashFile(d)}}
    IN  [n \in DOMAIN idx \cup found |-> IF n \in found THEN StashComplete ELSE idx[n]]

\* NewStashServer or a test calls loadExistingFileStashes
CallLoad(t) ==
    /\ pc[t] = "idle"
    /\ pc' = [pc EXCEPT ![t] = "load_lock"]
    /\ UNCHANGED <<ringVars, extVars, maxStashes, now, srvVars, reqVars>>

\* stashesMutex.Lock() in loadExistingFileStashes
LoadLock(t) ==
    /\ pc[t] = "load_lock"
    /\ CanLock
    /\ smx' = t
    /\ pc' = [pc EXCEPT ![t] = "load"]
    /\ UNCHANGED <<ringVars, extVars, maxStashes, now, stashes, files, readers, reqVars>>

\* os.ReadDir returns the whole listing, or an error with the entries it
\* could read; the error is logged and the entries read are loaded; Unlock
LoadScan(t, ok, dirs) ==
    /\ pc[t] = "load"
    /\ dirs \subseteq storage
    /\ ok => dirs = storage
    /\ stashes' = LoadDirs(stashes, dirs)
    /\ err' = [err EXCEPT ![t] = IF ok THEN "nil" ELSE "io"]
    /\ smx' = Free
    /\ pc' = [pc EXCEPT ![t] = "done"]
    /\ UNCHANGED <<ringVars, extVars, maxStashes, now, files, readers,
                   name, stashStatus, resp, before, seen>>

\* the construction of a server over every small stash directory
LoadInit ==
    /\ bufferSize = 1
    /\ NewRingEventBuffer(bufferSize)
    /\ maxStashes = 1
    /\ stashes = <<>>
    /\ files = <<>>
    /\ smx = Free
    /\ readers = {}
    /\ callbacks = <<>>
    /\ tasks = <<>>
    /\ storage \in Listings
    /\ now = FirstSecond
    /\ ThreadsIdle
    /\ NoFilterCall
    /\ NoCollector

LoadNext ==
    \E t \in HttpThreads :
        \/ CallLoad(t)
        \/ LoadLock(t)
        \/ \E ok \in BOOLEAN, dirs \in SUBSET storage : LoadScan(t, ok, dirs)
        \/ Return(t)

LoadSpec == LoadInit /\ [][LoadNext]_vars

\* ------------------------------------------------------------ the filters
ApiVersions == {"v1", "x/v1"}
Kinds == {"Pod", "Deployment", "Service"}
SupportedKinds == {"Pod", "Deployment", "PersistentVolumeClaim"}
LabelSets == {<<>>} \cup [{"app"} -> {"a", "b"}]

\* config.KubernetesResourceFilter
ResourceFilters ==
    [apiVersion : {""} \cup ApiVersions, resource : {""} \cup {"Pod", "Service"},
     labels : LabelSets]

\* an event as the filter function sees it: the involved object of the event,
\* the labels that object has in the cluster, and whether fetching the object
\* fails
FilterEvents ==
    [apiVersion : ApiVersions, kind : Kinds, labels : LabelSets, getFails : BOOLEAN]

\* the filter lists of at most k filters
RECURSIVE FilterLists(_)
FilterLists(k) ==
    IF k = 0 THEN {<<>>}
    ELSE LET shorter == FilterLists(k - 1)
         IN  shorter \cup
             {Append(fs, f) : fs \in {q \in shorter : Len(q) = k - 1},
                              f \in ResourceFilters}

\* labels.SelectorFromSet(set).Matches(labels): every pair of the set is in
\* the labels
SelectorMatches(set, labels) ==
    \A k \in DOMAIN set : k \in DOMAIN labels /\ labels[k] = set[k]

\* an iteration that does not compare the API version
IterationIgnoringApiVersion(f, in) ==
    IF f.resource # "" /\ f.resource # in.kind
        THEN "continue"
    ELSE IF f.labels # <<>>
        THEN IF in.kind \in SupportedKinds
                 THEN IF ~in.getFails /\ SelectorMatches(f.labels, in.labels)
                          THEN "return true" ELSE "return false"
                 ELSE "return false"
    ELSE "return true"

\* one iteration of the loop of the filter function on filter f: continue
\* with the next filter, or return
Iteration(f, in) ==
    IF f.apiVersion # "" /\ f.apiVersion # in.apiVersion
        THEN "continue"
    ELSE IF f.resource # "" /\ f.resource # in.kind
        THEN "continue"
    ELSE IF f.labels # <<>>
        THEN IF in.kind \in SupportedKinds
                 THEN IF ~in.getFails /\ SelectorMatches(f.labels, in.labels)
                          THEN "return true" ELSE "return false"
                 ELSE "return false"
    ELSE "return true"

\* the loop of the filter function from filter i on; return false after it
RECURSIVE FilterLoop(_, _, _)
FilterLoop(fs, i, in) ==
    IF i > Len(fs) THEN FALSE
    ELSE LET outcome == Iteration(fs[i], in)
         IN  IF outcome = "continue" THEN FilterLoop(fs, i + 1, in)
             ELSE outcome = "return true"

\* createFilterFuncFromConfigFilters(fs, kubeClient)(in)
FilterFunc(fs, in) ==
    IF Len(fs) = 0 THEN TRUE ELSE FilterLoop(fs, 1, in)

\* the filter function built from the single filter f accepts the event
RuleMatches(f, in) == FilterFunc(<<f>>, in)

\* the filter function is called
CallFilterFunc ==
    /\ accepted = <<>>
    /\ accepted' = <<FilterFunc(filters, inEvent)>>
    /\ UNCHANGED <<ringVars, pc, tmpBuff, taken, cbVars, colVars, filters, inEvent, cfg,
                   maxStashes, now, srvVars, reqVars>>

\* every configuration of at most MaxRules filters on every event
FilterInit ==
    /\ bufferSize = 1
    /\ NewRingEventBuffer(bufferSize)
    /\ NewStashServer(1, <<>>)
    /\ callbacks = <<>>
    /\ storage = {}
    /\ now = FirstSecond
    /\ ThreadsIdle
    /\ filters \in FilterLists(MaxRules)
    /\ inEvent \in FilterEvents
    /\ accepted = <<>>
    /\ cfg = NoStashConfig
    /\ NoCollector

FilterNext == CallFilterFunc

FilterSpec == FilterInit /\ [][FilterNext]_vars

\* ------------------------------------------------------- the stash trigger
EventTypeNormal == "Normal"
EventTypeWarning == "Warning"

\* the filters a stash trigger is configured with here
TriggerFilters ==
    [apiVersion : {""}, resource : {"", "Pod"}, labels : {<<>>, [app |-> "a"]}]

\* the lists of at most k of these filters
RECURSIVE TriggerFilterLists(_)
TriggerFilterLists(k) ==
    IF k = 0 THEN {<<>>}
    ELSE LET shorter == TriggerFilterLists(k - 1)
         IN  shorter \cup
             {Append(fs, f) : fs \in {q \in shorter : Len(q) = k - 1},
                              f \in TriggerFilters}

\* cfg.StashTrigger (nil or not, its EventType, its EventFilters: a nil
\* slice, an empty one or a list) and cfg.StashOnWarnings
StashConfigs ==
    {c \in [hasTrigger : BOOLEAN, eventType : {"", EventTypeNormal, EventTypeWarning},
            filtersNil : BOOLEAN, eventFilters : TriggerFilterLists(MaxRules),
            stashOnWarnings : BOOLEAN] :
        /\ c.filtersNil => c.eventFilters = <<>>
        /\ ~c.hasTrigger => (c.eventType = "" /\ c.filtersNil)}

\* an event as the action filter sees it: its Type and its involved object
TriggerEvents ==
    [type : {EventTypeNormal, EventTypeWarning}, apiVersion : {"v1"}, kind : Kinds,
     labels : LabelSets, getFails : BOOLEAN]

\* addActionFunc: the eventType the closure captures
CapturedEventType(c) ==
    IF c.eventType = "" /\ c.filtersNil THEN EventTypeWarning ELSE c.eventType

\* ec.ActionFilterFunc != nil && ec.ActionFilterFunc(in), for the function
\* addActionFunc installs: with a stash trigger the type test and then the
\* function built from its filters, without one the Warning test if
\* stashOnWarningEvents is set, and otherwise no function at all
ActionFilterFunc(c, in) ==
    IF c.hasTrigger
        THEN LET eventType == CapturedEventType(c)
             IN  IF eventType # "" /\ in.type # eventType
                     THEN FALSE
                     ELSE FilterFunc(c.eventFilters, in)
    ELSE IF c.stashOnWarnings
        THEN in.type = EventTypeWarning
    ELSE FALSE

\* handleEventReceived evaluates the action filter on an accepted event
CallActionFilterFunc ==
    /\ accepted = <<>>
    /\ accepted' = <<ActionFilterFunc(cfg, inEvent)>>
    /\ UNCHANGED <<ringVars, pc, tmpBuff, taken, cbVars, colVars, filters, inEvent, cfg,
                   maxStashes, now, srvVars, reqVars>>

\* every stash configuration on every event
TriggerInit ==
    /\ bufferSize = 1
    /\ NewRingEventBuffer(bufferSize)
    /\ NewStashServer(1, <<>>)
    /\ callbacks = <<>>
    /\ storage = {}
    /\ now = FirstSecond
    /\ ThreadsIdle
    /\ filters = <<>>
    /\ cfg \in StashConfigs
    /\ inEvent \in TriggerEvents
    /\ accepted = <<>>
    /\ NoCollector

TriggerNext == CallActionFilterFunc

TriggerSpec == TriggerInit /\ [][TriggerNext]_vars

\* ------------------------------------------------------------ collector
\* what the watcher can deliver: the channel is closed, an object that is
\* not a *corev1.Event, or an event
Objects ==
    {[ok |-> FALSE, isEvent |-> FALSE, uid |-> Nil],
     [ok |-> TRUE, isEvent |-> FALSE, uid |-> Nil]}
        \cup {[ok |-> TRUE, isEvent |-> TRUE, uid |-> e] : e \in UIDs}

\* the frame of the steps of handleEventReceived outside Add and the callback
ColFrame ==
    UNCHANGED <<bufferSize, bufVars, cursor, visited, snap, histVars, tmpBuff, taken,
                cbVars, fltVars, ec, closeChannel, maxStashes, now, srvVars,
                stashStatus, err, resp, seen>>

\* case event, ok := <-watcher.ResultChan(): handleEventReceived(event, ok)
Receive(t, o) ==
    /\ running
    /\ pc[t] = "idle"
    /\ obj' = o
    /\ run' = [NoRun EXCEPT !.received = TRUE, !.ring = ring, !.pos = pos, !.s = s,
                            !.stashes = stashes, !.skipped = run.skipped]
    /\ pc' = [pc EXCEPT ![t] = "ev_recv"]
    /\ UNCHANGED <<arg, name, before, running>>
    /\ ColFrame

\* handleEventReceived that gives up on an object that is not an Event
HandleTypeStopsOnMismatch(t) ==
    /\ pc[t] = "ev_recv"
    /\ IF ~obj.ok \/ ~obj.isEvent
         THEN /\ running' = FALSE
              /\ run' = [run EXCEPT !.skipped = obj.ok]
              /\ pc' = [pc EXCEPT ![t] = "idle"]
         ELSE /\ pc' = [pc EXCEPT ![t] = "ev_filter"]
              /\ UNCHANGED <<running, run>>
    /\ UNCHANGED <<arg, name, before, obj>>
    /\ ColFrame

\* a closed channel stops the loop; an object that is not an Event is logged
\* and skipped; an event goes on to the filter
HandleType(t) ==
    /\ pc[t] = "ev_recv"
    /\ IF ~obj.ok
         THEN /\ running' = FALSE
              /\ pc' = [pc EXCEPT ![t] = "idle"]
              /\ UNCHANGED run
         ELSE IF ~obj.isEvent
         THEN /\ run' = [run EXCEPT !.skipped = TRUE]
              /\ pc' = [pc EXCEPT ![t] = "idle"]
              /\ UNCHANGED running
         ELSE /\ pc' = [pc EXCEPT ![t] = "ev_filter"]
              /\ UNCHANGED <<running, run>>
    /\ UNCHANGED <<arg, name, before, obj>>
    /\ ColFrame

\* handleEventReceived that hands a rejected event to Add all the same
HandleFilterAddsAnyway(t, accepts) ==
    /\ pc[t] = "ev_filter"
    /\ IF ec.FilterFunc
         THEN run' = [run EXCEPT !.filterFunc = IF accepts THEN "true" ELSE "false",
                                 !.handed = TRUE]
         ELSE accepts /\ run' = [run EXCEPT !.handed = TRUE]
    /\ arg' = [arg EXCEPT ![t] = obj.uid]
    /\ pc' = [pc EXCEPT ![t] = "add_lock"]
    /\ UNCHANGED <<name, before, obj, running>>
    /\ ColFrame

\* ec.FilterFunc != nil && !ec.FilterFunc(e) returns; otherwise
\* ec.Buffer.Add(e). accepts is what FilterFunc answers for this event
HandleFilter(t, accepts) ==
    /\ pc[t] = "ev_filter"
    /\ IF ec.FilterFunc
         THEN IF accepts
                  THEN /\ run' = [run EXCEPT !.filterFunc = "true", !.handed = TRUE]
                       /\ arg' = [arg EXCEPT ![t] = obj.uid]
                       /\ pc' = [pc EXCEPT ![t] = "add_lock"]
                  ELSE /\ run' = [run EXCEPT !.filterFunc = "false"]
                       /\ pc' = [pc EXCEPT ![t] = "idle"]
                       /\ UNCHANGED arg
         ELSE /\ accepts
              /\ run' = [run EXCEPT !.handed = TRUE]
              /\ arg' = [arg EXCEPT ![t] = obj.uid]
              /\ pc' = [pc EXCEPT ![t] = "add_lock"]
    /\ UNCHANGED <<name, before, obj, running>>
    /\ ColFrame

\* handleEventReceived that calls the callback for every event it added
HandleActionAlwaysFires(t, passes) ==
    /\ pc[t] = "ev_action"
    /\ IF ec.ActionFilterFunc
         THEN run' = [run EXCEPT !.actionFilterFunc = IF passes THEN "true" ELSE "false",
                                 !.fired = IF ec.ActionCallback THEN @ + 1 ELSE @]
         ELSE passes /\ run' = [run EXCEPT !.fired = IF ec.ActionCallback THEN @ + 1 ELSE @]
    /\ IF ec.ActionCallback
         THEN /\ name' = [name EXCEPT ![t] = now]
              /\ before' = [before EXCEPT ![t] = (now \in DOMAIN stashes)]
              /\ pc' = [pc EXCEPT ![t] = "create_lock"]
         ELSE /\ pc' = [pc EXCEPT ![t] = "idle"]
              /\ UNCHANGED <<name, before>>
    /\ UNCHANGED <<arg, obj, running>>
    /\ ColFrame

\* after Add: ec.ActionFilterFunc != nil && ec.ActionFilterFunc(e), then
\* ec.ActionCallback(e) if there is one, which main sets to a call of
\* stashServer.CreateBufferStash(). passes is what ActionFilterFunc answers
HandleAction(t, passes) ==
    /\ pc[t] = "ev_action"
    /\ IF ec.ActionFilterFunc
         THEN run' = [run EXCEPT !.actionFilterFunc = IF passes THEN "true" ELSE "false",
                                 !.fired = IF passes /\ ec.ActionCallback THEN @ + 1 ELSE @]
         ELSE passes /\ UNCHANGED run
    /\ IF ec.ActionFilterFunc /\ passes /\ ec.ActionCallback
         THEN /\ name' = [name EXCEPT ![t] = now]
              /\ before' = [before EXCEPT ![t] = (now \in DOMAIN stashes)]
              /\ pc' = [pc EXCEPT ![t] = "create_lock"]
         ELSE /\ pc' = [pc EXCEPT ![t] = "idle"]
              /\ UNCHANGED <<name, before>>
    /\ UNCHANGED <<arg, obj, running>>
    /\ ColFrame

\* the loop of Run with any combination of the optional functions, fed by
\* a watcher that delivers events, other objects, and finally closes
ColInit ==
    /\ bufferSize = MaxCap
    /\ NewRingEventBuffer(bufferSize)
    /\ NewStashServer(MaxMaxStashes, <<>>)
    /\ callbacks = <<>>
    /\ storage = {}
    /\ now = FirstSecond
    /\ ThreadsIdle
    /\ NoFilterCall
    /\ ec \in [FilterFunc : BOOLEAN, ActionFilterFunc : BOOLEAN, ActionCallback : BOOLEAN]
    /\ obj = NoObj
    /\ running = TRUE
    /\ run = NoRun
    /\ closeChannel = OpenChannel

ColNext ==
    \E t \in AutoThreads :
        \/ \E o \in Objects : Receive(t, o)
        \/ HandleType(t)
        \/ \E accepts \in BOOLEAN : HandleFilter(t, accepts)
        \/ AddLock(t)
        \/ AddIndex(t)
        \/ AddStore(t)
        \/ \E passes \in BOOLEAN : HandleAction(t, passes)
        \/ CreateStep(t)

ColSpec == ColInit /\ [][ColNext]_vars

\* ------------------------------------------------- the end of the loop
\* the goroutines around the loop: Run is called by main itself, Stop by
\* whoever holds the collector, GET /buffer by the server's goroutine
Stoppers == {"h2"}

\* the frame of the steps of Stop and of the end of Run
StopFrame ==
    UNCHANGED <<ringVars, tmpBuff, taken, cbVars, fltVars, ec, obj, maxStashes, now,
                srvVars, reqVars>>

\* the process is gone: main returned or a goroutine panicked
Exited == \E t \in Threads : pc[t] \in {"exit", "panic"}

\* Stop, line 113: if ec.closeChannel != nil. The field is nil before Run
\* has made the channel and after the loop has ended
StopCheck(t) ==
    /\ pc[t] = "idle"
    /\ pc' = [pc EXCEPT ![t] = IF running THEN "stop_send" ELSE "idle"]
    /\ UNCHANGED <<running, run, closeChannel>>
    /\ StopFrame

\* Stop, line 114: ec.closeChannel <- true. The field is read again without
\* any synchronisation: a send on a nil channel blocks for ever, a send on
\* a closed channel panics, a send on a full channel blocks
StopSend(t) ==
    /\ pc[t] = "stop_send"
    /\ running
    /\ IF closeChannel.closed
         THEN /\ pc' = [u \in Threads |-> "panic"]
              /\ UNCHANGED closeChannel
         ELSE /\ closeChannel.len < 2
              /\ closeChannel' = [closeChannel EXCEPT !.len = @ + 1]
              /\ pc' = [pc EXCEPT ![t] = "stop_close"]
    /\ UNCHANGED <<running, run>>
    /\ StopFrame

\* Stop, line 115: close(ec.closeChannel), the field read a third time: the
\* close of a nil channel and the close of a closed channel both panic
StopClose(t) ==
    /\ pc[t] = "stop_close"
    /\ IF ~running \/ closeChannel.closed
         THEN /\ pc' = [u \in Threads |-> "panic"]
              /\ UNCHANGED closeChannel
         ELSE /\ closeChannel' = [closeChannel EXCEPT !.closed = TRUE]
              /\ pc' = [pc EXCEPT ![t] = "idle"]
    /\ UNCHANGED <<running, run>>
    /\ StopFrame

\* Run, lines 69-75: case <-ec.closeChannel is ready when a value is
\* buffered or the channel is closed; stop, ec.closeChannel = nil, break
ReceiveStop(t) ==
    /\ running
    /\ pc[t] = "idle"
    /\ closeChannel.len > 0 \/ closeChannel.closed
    /\ running' = FALSE
    /\ closeChannel' = OpenChannel
    /\ run' = [NoRun EXCEPT !.ring = ring, !.pos = pos, !.s = s, !.stashes = stashes]
    /\ UNCHANGED pc
    /\ StopFrame

\* main, lines 76-77: eventcollector.Run() is the last statement of main;
\* when the loop has ended Run returns, main returns and the process ends
\* with every goroutine in it, the server's included
MainReturns(t) ==
    /\ ~running
    /\ pc[t] = "idle"
    /\ pc' = [u \in Threads |-> "exit"]
    /\ UNCHANGED <<running, run, closeChannel>>
    /\ StopFrame

\* the collector as main builds it: no FilterFunc without eventFilters, the
\* ActionCallback always set, the ActionFilterFunc set by addActionFunc or not
StopInit ==
    /\ bufferSize = 1
    /\ NewRingEventBuffer(bufferSize)
    /\ NewStashServer(MaxMaxStashes, <<>>)
    /\ callbacks = <<>>
    /\ storage = {}
    /\ now = FirstSecond
    /\ ThreadsIdle
    /\ NoFilterCall
    /\ ec \in [FilterFunc : {FALSE}, ActionFilterFunc : BOOLEAN, ActionCallback : {TRUE}]
    /\ obj = NoObj
    /\ running = TRUE
    /\ run = NoRun
    /\ closeChannel = OpenChannel

\* the program of main with a caller of Stop: the loop, the live buffer
\* served over HTTP, Stop, and the return of main
StopNext ==
    \/ \E t \in AutoThreads :
          \/ \E o \in Objects : Receive(t, o)
          \/ ReceiveStop(t)
          \/ HandleType(t)
          \/ \E accepts \in BOOLEAN : HandleFilter(t, accepts)
          \/ AddLock(t)
          \/ AddIndex(t)
          \/ AddStore(t)
          \/ \E passes \in BOOLEAN : HandleAction(t, passes)
          \/ CreateStep(t)
          \/ MainReturns(t)
    \/ \E t \in HttpThreads :
          \/ CallGetBuffer(t)
          \/ BufferDo(t)
          \/ \E ok \in BOOLEAN : BufferWrite(t, ok)
          \/ Return(t)
    \/ \E t \in Stoppers :
          \/ StopCheck(t)
          \/ StopSend(t)
          \/ StopClose(t)

StopSpec == StopInit /\ [][StopNext]_vars

\* ------------------------------------------------------ the whole program
\* the program of main: the ingestion loop with its automatic trigger, two
\* HTTP requests at a time, and the goroutine of the completion callbacks
SysInit ==
    /\ bufferSize = 1
    /\ NewRingEventBuffer(bufferSize)
    /\ NewStashServer(MaxMaxStashes, <<>>)
    /\ callbacks = Registered(1)
    /\ storage = {}
    /\ now = FirstSecond
    /\ ThreadsIdle
    /\ NoFilterCall
    /\ ec = [FilterFunc |-> FALSE, ActionFilterFunc |-> TRUE, ActionCallback |-> TRUE]
    /\ obj = NoObj
    /\ running = TRUE
    /\ run = NoRun
    /\ closeChannel = OpenChannel

\* the steps of the ingestion loop on an event the filter has accepted:
\* Add, the action filter, and the automatic trigger
LoopStep(t) ==
    \/ ProduceNext(t)
    \/ AddLock(t)
    \/ AddIndex(t)
    \/ AddStore(t)
    \/ \E passes \in BOOLEAN : HandleAction(t, passes)
    \/ CreateStep(t)

\* the steps of a request: POST /stashes, GET /stashes, GET /stashes/<n>,
\* GET /buffer
RequestStep(t) ==
    \/ CallPost(t)
    \/ PurgeLock(t)
    \/ PurgeOldStashes(t)
    \/ CreateStep(t)
    \/ CallGetStash(t, FirstSecond)
    \/ GetRLock(t)
    \/ GetRead(t)
    \/ CallGetStashes(t)
    \/ ListRLock(t)
    \/ ListRead(t)
    \/ CallGetBuffer(t)
    \/ BufferDo(t)
    \/ BufferWrite(t, TRUE)

\* the steps of a second request at the same time, a GET /stashes
ListStep(t) ==
    \/ CallGetStashes(t)
    \/ ListRLock(t)
    \/ ListRead(t)
    \/ Return(t)

\* what a goroutine of the program can do next
SysStep(t) ==
    IF t \in AutoThreads THEN LoopStep(t)
    ELSE IF t \in HttpThreads THEN RequestStep(t)
    ELSE ListStep(t)

SysNext ==
    \/ \E k \in 1..MaxTasks : ExecStashCompleteFuncs(k)
    \/ \E t \in AutoThreads : LoopStep(t)
    \/ \E t \in HttpThreads : RequestStep(t)
    \/ \E t \in Handlers \ HttpThreads : ListStep(t)

SysSpec == SysInit /\ [][SysNext]_vars

\* t is at stashesMutex.Lock() or RLock()
WaitsIndex(t) == pc[t] \in {"purge_lock", "create_lock", "get_rlock", "list_rlock"}

\* t is at b.mx.Lock(), in Add or in the Do of Stash
WaitsBuffer(t) == pc[t] \in {"add_lock", "stash_do", "buf_do"}

\* t holds stashesMutex, for writing or for reading
HoldsIndex(t) == smx = t \/ t \in readers

\* t holds b.mx
HoldsBuffer(t) == mx = t

\* the buffer built with any bufferSize, 0 included: ring.New(0) is the nil
\* ring and NewRingEventBuffer returns the buffer all the same
ZeroInit ==
    /\ bufferSize \in 0..MaxCap
    /\ NewRingEventBuffer(bufferSize)
    /\ NewStashServer(1, <<>>)
    /\ callbacks = <<>>
    /\ storage = {}
    /\ now = FirstSecond
    /\ ThreadsIdle
    /\ NoFilterCall
    /\ NoCollector

\* a panic in any goroutine ends the process
Panicked == \E t \in Threads : pc[t] = "panic"

\* one caller of Add and Do; after the panic of an Add nothing runs
ZeroNext ==
    \E t \in Producers :
        \/ \E e \in UIDs : CallAdd(t, e)
        \/ AddLock(t)
        \/ AddIndex(t)
        \/ AddStore(t)
        \/ CallDo(t)
        \/ DoLock(t)
        \/ DoVisit(t)
        \/ DoReturn(t)

ZeroSpec == ZeroInit /\ [][ZeroNext]_vars

\* triggers of both kinds, POST /stashes and CreateBufferStash, issued one
\* after the other: a trigger starts only when no other call is under way
NoCallUnderWay == \A t \in Threads : pc[t] = "idle"

RetInit ==
    /\ bufferSize = 1
    /\ NewRingEventBuffer(bufferSize)
    /\ \E m \in 1..MaxMaxStashes : NewStashServer(m, <<>>)
    /\ callbacks = <<>>
    /\ storage = {}
    /\ now = 1
    /\ ThreadsIdle
    /\ NoFilterCall
    /\ NoCollector

RetPost(t) ==
    /\ NoCallUnderWay
    /\ CallPost(t)

RetCreateBufferStash(t) ==
    /\ NoCallUnderWay
    /\ CallCreateBufferStash(t)

RetNext ==
    \/ Tick
    \/ \E t \in HttpThreads :
          \/ RetPost(t)
          \/ PurgeLock(t)
          \/ PurgeOldStashes(t)
          \/ CreateStep(t)
    \/ \E t \in AutoThreads :
          \/ RetCreateBufferStash(t)
          \/ CreateStep(t)

RetSpec == RetInit /\ [][RetNext]_vars

\* a server built with any maxStashes the configuration can hold from 0 up,
\* over any stash directory, and POST /stashes requests one second apart
PurgeInit ==
    /\ bufferSize = 1
    /\ NewRingEventBuffer(bufferSize)
    /\ \E m \in 0..MaxMaxStashes, dir \in OldDirs : NewStashServer(m, dir)
    /\ callbacks = <<>>
    /\ storage = {}
    /\ now = FirstSecond
    /\ ThreadsIdle
    /\ NoFilterCall
    /\ NoCollector

PurgeNext ==
    \/ Tick
    \/ \E t \in HttpThreads :
          \/ CallPost(t)
          \/ PurgeLock(t)
          \/ PurgeOldStashes(t)
          \/ CreateStep(t)

PurgeSpec == PurgeInit /\ [][PurgeNext]_vars

\* POST /stashes requests served concurrently, none of them failing to write
ConcInit ==
    /\ bufferSize = 1
    /\ NewRingEventBuffer(bufferSize)
    /\ \E m \in 1..MaxMaxStashes : NewStashServer(m, <<>>)
    /\ callbacks = <<>>
    /\ storage = {}
    /\ now = FirstSecond
    /\ ThreadsIdle
    /\ NoFilterCall
    /\ NoCollector

ConcNext ==
    \/ Tick
    \/ \E t \in Handlers :
          \/ CallPost(t)
          \/ PurgeLock(t)
          \/ PurgeOldStashes(t)
          \/ CreateLock(t)
          \/ CreateCheck(t)
          \/ CreateFile(t, TRUE)
          \/ StashDo(t)
          \/ CreateWrite(t, TRUE)
          \/ CreateDefer(t)
          \/ Return(t)

ConcSpec == ConcInit /\ [][ConcNext]_vars

\* the next callback of the loop of execStashCompleteFuncs is called and
\* returns; the process is running
ExecWhileAlive(k) ==
    /\ ~Panicked
    /\ ExecStashCompleteFuncs(k)

\* the next callback of the loop is called and panics: nothing in
\* execStashCompleteFuncs or in the goroutine recovers, so the panic ends the
\* process and every goroutine with it
CallbackPanics(k) ==
    /\ ~Panicked
    /\ k \in DOMAIN tasks
    /\ tasks[k].i < Len(callbacks)
    /\ tasks' = [tasks EXCEPT
                    ![k].i = @ + 1,
                    ![k].log = Append(@, [callback |-> callbacks[tasks[k].i + 1],
                                          name |-> tasks[k].d,
                                          status |-> tasks[k].status])]
    /\ pc' = [t \in Threads |-> "panic"]
    /\ UNCHANGED <<ringVars, tmpBuff, taken, cfgVars, fltVars, colVars, maxStashes, now,
                   srvVars, reqVars>>

\* automatic stashes on a server whose completion callbacks may panic
PanicNext ==
    \/ Tick
    \/ \E k \in 1..MaxTasks : ExecWhileAlive(k) \/ CallbackPanics(k)
    \/ \E t \in AutoThreads :
          \/ CbCreateBufferStash(t)
          \/ CreateStep(t)

PanicSpec == CbInit /\ [][PanicNext]_vars

\* POST /stashes requests while a producer adds events, every goroutine
\* being scheduled: a call that can go on does go on (os.Create and the
\* write return, Add runs to its Unlock), and a goroutine waiting in
\* b.mx.Lock() for Do gets the lock, which sync.RWMutex hands to waiters
FairInit ==
    /\ bufferSize = 1
    /\ NewRingEventBuffer(bufferSize)
    /\ \E m \in 1..MaxMaxStashes : NewStashServer(m, <<>>)
    /\ callbacks = <<>>
    /\ storage = {}
    /\ now = FirstSecond
    /\ ThreadsIdle
    /\ NoFilterCall
    /\ NoCollector

FairNext ==
    \/ Tick
    \/ \E t \in Producers :
          \/ ProduceNext(t)
          \/ AddLock(t)
          \/ AddIndex(t)
          \/ AddStore(t)
    \/ \E t \in HttpThreads :
          \/ CallPost(t)
          \/ PurgeLock(t)
          \/ PurgeOldStashes(t)
          \/ CreateStep(t)

Fairness ==
    /\ \A t \in HttpThreads :
          /\ WF_vars(\E ok \in BOOLEAN : CreateFile(t, ok))
          /\ SF_vars(StashDo(t))
          /\ WF_vars(\E ok \in BOOLEAN : CreateWrite(t, ok))
          /\ WF_vars(CreateDefer(t))
    /\ \A t \in Producers :
          /\ WF_vars(AddIndex(t))
          /\ WF_vars(AddStore(t))

FairSpec == FairInit /\ [][FairNext]_vars /\ Fairness

\* GET /buffer while a producer adds events and stashes are triggered
LiveInit ==
    /\ bufferSize \in 1..MaxCap
    /\ NewRingEventBuffer(bufferSize)
    /\ \E dir \in OldDirs : NewStashServer(MaxMaxStashes, dir)
    /\ callbacks = <<>>
    /\ storage = {}
    /\ now = FirstSecond
    /\ ThreadsIdle
    /\ NoFilterCall
    /\ NoCollector

LiveNext ==
    \/ \E t \in Producers :
          \/ ProduceNext(t)
          \/ AddLock(t)
          \/ AddIndex(t)
          \/ AddStore(t)
    \/ \E t \in HttpThreads :
          \/ CallGetBuffer(t)
          \/ BufferDo(t)
          \/ \E ok \in BOOLEAN : BufferWrite(t, ok)
          \/ Return(t)
    \/ \E t \in AutoThreads :
          \/ CallCreateBufferStash(t)
          \/ CreateStep(t)

LiveSpec == LiveInit /\ [][LiveNext]_vars

\* ------------------------------------------------------ buffer properties
\* C1: for a buffer of capacity C >= 1, Size() equals min(C, number of
\* distinct identities passed to Add), Size() <= C in every state, and
\* Capacity() returns C throughout.
C1_SizeIsDistinctCapped ==
    /\ Capacity = bufferSize
    /\ Size <= bufferSize
    /\ Size = Min(bufferSize, Len(order))

\* C1 witness: more identities than slots have been added and no Add is
\* under way.
C1_Witness ==
    /\ mx = Free
    /\ Len(order) > bufferSize
    /\ Size = bufferSize

\* C2: after distinct identities e1..en were added in order to an empty
\* buffer, a complete Do has visited exactly the last min(n, C) of them,
\* each once, in insertion order, and Size() is min(n, C).
C2_DoVisitsLastInOrder ==
    distinctOnly =>
        \A t \in BufThreads :
            (pc[t] = "do_visit" /\ cursor[t] = Len(ring)) =>
                /\ visited[t] = LastN(order, Min(Len(order), bufferSize))
                /\ NoDuplicates(visited[t])
                /\ Size = Len(visited[t])

\* C2 witness: capacity 2, identities 1, 2, 3 added in order, and a Do that
\* has gone round the ring and visited 2, 3.
C2_Witness ==
    /\ distinctOnly
    /\ bufferSize = 2
    /\ order = <<1, 2, 3>>
    /\ \E t \in BufThreads :
          pc[t] = "do_visit" /\ cursor[t] = Len(ring) /\ visited[t] = <<2, 3>>

\* C3: an Add whose identity is already resident changes nothing: Size(),
\* the sequence Do would visit, the write cursor and the slots are the same
\* after every step of that call.
C3_ReAddIsNoOp ==
    [][\A t \in BufThreads :
          (pc[t] \in {"add_index", "add_store"} /\ arg[t] \in RingIds(ring)) =>
              /\ Size' = Size
              /\ Traversal(ring', pos') = Traversal(ring, pos)
              /\ pos' = pos
              /\ ring' = ring]_vars

\* C3 witness: a single identity has ever been added, it has been added
\* again, and the buffer with room to spare still holds it once.
C3_Witness ==
    /\ ~distinctOnly
    /\ Len(order) = 1
    /\ bufferSize >= 2
    /\ mx = Free
    /\ Size = 1
    /\ Traversal(ring, pos) = order

\* C4: concurrent Add and Do never deadlock (whoever waits for the lock can
\* take it, or its holder can take a step), and a Do traversal sees the
\* residents of one instant: what it has visited is the traversal of the
\* buffer as it was when Do took the lock, without repetition, and the index
\* agrees with the slots (no half-applied Add).
C4_NoDeadlockConsistentSnapshot ==
    /\ \A t \in BufThreads :
          pc[t] = "do_visit" =>
              /\ Traversal(ring, pos) = snap[t]
              /\ visited[t] = VisitedAfter(ring, pos, cursor[t])
              /\ (cursor[t] = Len(ring) => visited[t] = snap[t])
              /\ NoDuplicates(visited[t])
              /\ Range(snap[t]) = s
    /\ \A t \in BufThreads :
          pc[t] \in {"add_lock", "do_lock"} =>
              \/ mx = Free /\ ENABLED (AddLock(t) \/ DoLock(t))
              \/ mx \in BufThreads /\ ENABLED BufStep(mx)

\* C4 witness: a Do has visited two events while another thread waits in
\* Add with a new identity.
C4_Witness ==
    \E d, w \in BufThreads :
        /\ pc[d] = "do_visit"
        /\ Len(visited[d]) = 2
        /\ pc[w] = "add_lock"
        /\ arg[w] \notin s

C7_SuccessfulTriggerNameWasUnknown ==
    \A t \in HttpThreads \cup AutoThreads :
        (pc[t] = "done" /\ err[t] = "nil") => ~before[t]

\* C8: with maxStashes = N and one successful trigger per second, after k
\* triggers the min(N, k) newest names are known, Complete and persisted,
\* the older ones are gone from the index and from storage, and GetStash of
\* a discarded name answers NotFound.
C8_RetentionKeepsNewest ==
    (\A t \in HttpThreads : pc[t] \in {"idle", "get_rlock", "get_read", "done"}) =>
        LET k == IF now \in DOMAIN stashes THEN now ELSE now - 1
            kept == Min(maxStashes, k)
        IN  /\ DOMAIN stashes = (k - kept + 1)..k
            /\ DOMAIN files = DOMAIN stashes
            /\ \A n \in DOMAIN stashes : stashes[n] = StashComplete
            /\ \A t \in HttpThreads :
                  (pc[t] = "done" /\ seen[t] # "none" /\ name[t] \in 1..(k - kept)) =>
                      resp[t].code = StatusNotFound

\* C8 witness: maxStashes = 2, triggers at seconds 1, 2, 3 have left 2 and
\* 3, and GetStash of 1 has answered NotFound.
C8_Witness ==
    /\ maxStashes = 2
    /\ DOMAIN stashes = {2, 3}
    /\ DOMAIN files = {2, 3}
    /\ \E t \in HttpThreads :
          /\ pc[t] = "done"
          /\ name[t] = 1
          /\ seen[t] = "unknown"
          /\ resp[t].code = StatusNotFound

\* C9: GetStash answers by the status found for the name: unknown or Failed
\* gives NotFound, Started gives the in-progress answer, Complete gives the
\* persisted payload, any other status gives a generic failure.
C9_GetStashByStatus ==
    \A t \in HttpThreads :
        (pc[t] = "done" /\ seen[t] # "none") =>
            /\ seen[t] \in {"unknown", StashFailed} =>
                   resp[t].code = StatusNotFound
            /\ seen[t] = StashStarted =>
                   resp[t].code = StatusMethodNotAllowed
            /\ seen[t] = StashComplete =>
                   /\ resp[t].code = StatusOK
                   /\ resp[t].body = files[name[t]]
            /\ seen[t] \notin {"unknown", StashFailed, StashStarted, StashComplete} =>
                   resp[t].code = StatusInternalServerError

\* C9 witness: a GetStash has answered in-progress for a Started stash.
C9_Witness ==
    \E t \in HttpThreads :
        /\ pc[t] = "done"
        /\ seen[t] = StashStarted
        /\ resp[t].code = StatusMethodNotAllowed

\* C10 as stated: a ListStashes or a GetStash issued while a stash is
\* recorded Started finds the index lock free for reading, so it completes
\* without waiting for the write to finish.
C10_ReadersDoNotWaitForStarted ==
    [][\A r \in HttpThreads :
          (/\ \E n \in DOMAIN stashes : stashes[n] = StashStarted
           /\ pc[r] = "idle"
           /\ pc'[r] \in {"get_rlock", "list_rlock"}) =>
              CanRLock']_vars

\* C11: GetStash of a Complete stash returns the JSON array of the events the
\* buffer held when the snapshot of that stash was taken, in ring order,
\* whatever has been added to the buffer since.
C11_PayloadIsSnapshot ==
    \A t \in HttpThreads :
        (pc[t] = "done" /\ seen[t] = StashComplete) =>
            /\ resp[t].code = StatusOK
            /\ resp[t].body = JsonEncode(taken[name[t]])

\* C11 witness: a stash taken of a full two-slot buffer has been fetched
\* after an Add overwrote one of the events it holds.
C11_Witness ==
    \E t \in HttpThreads :
        /\ pc[t] = "done"
        /\ seen[t] = StashComplete
        /\ Len(resp[t].body) = 2
        /\ Len(taken[name[t]]) = 2
        /\ Traversal(ring, pos) # taken[name[t]]

C14_CallbacksSeeComplete ==
    \A k \in DOMAIN tasks :
        \A j \in DOMAIN tasks[k].log :
            tasks[k].log[j].status = StashComplete

\* C15: after a scan that read the whole directory the index holds Complete
\* entries and nothing else, one for every non-directory entry whose name
\* starts with the prefix, keyed by that name without ".json"; directories
\* and names without the prefix give no entry; a scan cut short by a read
\* error loads no other name; and no scan changes the directory.
C15_StartupLoadsPrefixedFiles ==
    /\ [](\A t \in HttpThreads :
             pc[t] = "done" =>
                 /\ \A n \in DOMAIN stashes :
                       /\ stashes[n] = StashComplete
                       /\ \E e \in storage :
                             /\ ~e.isDir
                             /\ e.prefix
                             /\ n.stem = e.stem
                             /\ n.ext = (IF e.ext = ".json" THEN "" ELSE e.ext)
                 /\ err[t] = "nil" =>
                       \A e \in storage :
                           (~e.isDir /\ e.prefix) =>
                               \E n \in DOMAIN stashes :
                                   /\ n.stem = e.stem
                                   /\ n.ext = (IF e.ext = ".json" THEN "" ELSE e.ext))
    /\ [][storage' = storage /\ files' = files]_vars

\* C15 witness: a directory holding a stash file and a directory with the
\* prefix has been scanned, and the index has the one entry of the file.
C15_Witness ==
    \E t \in HttpThreads :
        /\ pc[t] = "done"
        /\ err[t] = "nil"
        /\ \E e, f \in storage :
              /\ e.prefix /\ ~e.isDir /\ e.ext = ".json"
              /\ f.prefix /\ f.isDir /\ f.ext = ".txt"
        /\ Cardinality(DOMAIN stashes) = 1

\* ------------------------------------------------------- filter properties
\* C16 as stated: the filter function accepts an event iff the filter list
\* is empty or some filter of the list, at any position, matches the event.
C16_AcceptIsDisjunction ==
    accepted # <<>> =>
        accepted[1] = (\/ filters = <<>>
                       \/ \E i \in DOMAIN filters : RuleMatches(filters[i], inEvent))

\* C17 as stated: a single filter matches iff its apiVersion is empty or
\* equal, its resource kind is empty or equal, and its labels are empty or
\* all present and equal in the labels of the involved object.
C17_RuleIsConjunction ==
    (accepted # <<>> /\ Len(filters) = 1) =>
        LET f == filters[1]
        IN  accepted[1] =
                (/\ f.apiVersion = "" \/ f.apiVersion = inEvent.apiVersion
                 /\ f.resource = "" \/ f.resource = inEvent.kind
                 /\ \/ f.labels = <<>>
                    \/ \A k \in DOMAIN f.labels :
                          /\ k \in DOMAIN inEvent.labels
                          /\ inEvent.labels[k] = f.labels[k])

\* C17 amended: a single filter matches iff its apiVersion is empty or equal,
\* its resource kind is empty or equal, and its labels are empty or the
\* involved object is a Pod, a Deployment or a PersistentVolumeClaim that
\* could be fetched and whose labels hold every listed pair; a list with only
\* {apiVersion: "x/v1"} rejects every event with another apiVersion.
C17_RuleIsConjunctionOnFetchedLabels ==
    (accepted # <<>> /\ Len(filters) = 1) =>
        LET f == filters[1]
        IN  /\ accepted[1] =
                (/\ f.apiVersion = "" \/ f.apiVersion = inEvent.apiVersion
                 /\ f.resource = "" \/ f.resource = inEvent.kind
                 /\ \/ f.labels = <<>>
                    \/ /\ inEvent.kind \in {"Pod", "Deployment", "PersistentVolumeClaim"}
                       /\ ~inEvent.getFails
                       /\ \A k \in DOMAIN f.labels :
                             /\ k \in DOMAIN inEvent.labels
                             /\ inEvent.labels[k] = f.labels[k])
            /\ (f = [apiVersion |-> "x/v1", resource |-> "", labels |-> <<>>]
                    /\ inEvent.apiVersion # "x/v1") => accepted[1] = FALSE

\* C17 witness: the list holds only {apiVersion: "x/v1"} and an event of a
\* Pod with apiVersion v1 has been rejected.
C17_Witness ==
    /\ filters = <<[apiVersion |-> "x/v1", resource |-> "", labels |-> <<>>]>>
    /\ inEvent.apiVersion = "v1"
    /\ inEvent.kind = "Pod"
    /\ accepted = <<FALSE>>

\* ---------------------------------------------------- collector properties
\* C18: an event enters Add only if no FilterFunc is set or FilterFunc
\* accepted it; when FilterFunc rejects the event the handling ends with the
\* buffer (slots, write cursor, index) as it was, without a call of the
\* action filter or of the callback; without a FilterFunc every event
\* received is handed to Add.
C18_OnlyAcceptedEventsEnterBuffer ==
    \A t \in AutoThreads :
        (run.received /\ obj.ok /\ obj.isEvent) =>
            /\ run.handed => (~ec.FilterFunc \/ run.filterFunc = "true")
            /\ run.filterFunc = "false" =>
                  /\ pc[t] = "idle"
                  /\ ~run.handed
                  /\ run.actionFilterFunc = "not called"
                  /\ run.fired = 0
                  /\ <<ring, pos, s>> = <<run.ring, run.pos, run.s>>
            /\ (~ec.FilterFunc /\ pc[t] \notin {"ev_recv", "ev_filter"}) =>
                  /\ run.handed
                  /\ run.filterFunc = "not called"
            /\ pc[t] \in {"add_lock", "add_index", "add_store"} =>
                  /\ run.handed
                  /\ arg[t] = obj.uid

\* C18 witness: FilterFunc has rejected an event that is not in the buffer,
\* which holds other events.
C18_Witness ==
    \E t \in AutoThreads :
        /\ pc[t] = "idle"
        /\ obj.isEvent
        /\ run.filterFunc = "false"
        /\ s # {}
        /\ obj.uid \notin s

\* C19: the callback is called at most once per received event, only after
\* Add returned and only when the action filter is set and accepted the
\* event; once the handling is over it has been called exactly once if the
\* event was handed to Add and the action filter accepted it (given a
\* callback), and not at all otherwise.
C19_ActionCallbackOncePerPassingEvent ==
    \A t \in AutoThreads :
        /\ run.fired <= 1
        /\ run.fired = 1 =>
              /\ obj.isEvent
              /\ run.handed
              /\ ec.ActionFilterFunc /\ run.actionFilterFunc = "true"
              /\ ~ec.FilterFunc \/ run.filterFunc = "true"
              /\ pc[t] \notin {"ev_recv", "ev_filter", "add_lock", "add_index",
                                "add_store", "ev_action"}
        /\ run.actionFilterFunc # "not called" => (ec.ActionFilterFunc /\ run.handed)
        /\ (run.received /\ pc[t] = "idle") =>
              run.fired = (IF /\ run.handed
                              /\ run.actionFilterFunc = "true"
                              /\ ec.ActionCallback
                           THEN 1 ELSE 0)
        /\ (run.received /\ pc[t] = "idle" /\ run.handed /\ ec.ActionFilterFunc) =>
              run.actionFilterFunc # "not called"

\* C19 witness: an event already in the buffer was received again, Add left
\* the buffer as it was, and the callback has run once.
C19_Witness ==
    \E t \in AutoThreads :
        /\ pc[t] = "idle"
        /\ run.handed
        /\ run.fired = 1
        /\ obj.uid \in run.s
        /\ <<ring, pos, s>> = <<run.ring, run.pos, run.s>>

\* C20: an object that is not an Event is skipped: its handling ends at once
\* with the buffer and the stash index as they were, no filter and no
\* callback called, and the loop still running and ready to receive.
C20_NonEventIsSkipped ==
    \A t \in AutoThreads :
        /\ (run.received /\ obj.ok /\ ~obj.isEvent) =>
              /\ pc[t] \in {"ev_recv", "idle"}
              /\ <<ring, pos, s>> = <<run.ring, run.pos, run.s>>
              /\ stashes = run.stashes
              /\ ~run.handed
              /\ run.filterFunc = "not called"
              /\ run.actionFilterFunc = "not called"
              /\ run.fired = 0
              /\ running
              /\ pc[t] = "idle" => ENABLED (\E o \in Objects : Receive(t, o))
        /\ ~running => ~obj.ok

\* C20 witness: after an object that is not an Event was skipped, an event
\* has been received, added to the buffer and has triggered a stash.
C20_Witness ==
    \E t \in AutoThreads :
        /\ run.skipped
        /\ pc[t] = "idle"
        /\ obj.isEvent
        /\ run.handed
        /\ obj.uid \in s
        /\ obj.uid \notin run.s
        /\ run.fired = 1
        /\ stashes # run.stashes

\* ------------------------------------------------------ GET /buffer property
\* C21: GET /buffer answers 200 with the JSON encoding of the events the
\* buffer held when the handler ran Do, a moment between the call and the
\* answer; no step of the handler changes the stash index, the stash
\* directory or the index lock; and it answers 500 only when Stash failed.
C21_LiveBufferBypassesPersistence ==
    /\ [](\A t \in HttpThreads :
            pc[t] = "done" =>
               /\ resp[t].code \in {StatusOK, StatusInternalServerError}
               /\ resp[t].code = StatusOK =>
                     /\ err[t] = "nil"
                     /\ resp[t].body = JsonEncode(snap[t])
               /\ resp[t].code = StatusInternalServerError => err[t] = "io")
    /\ [][\A t \in HttpThreads :
             pc'[t] # pc[t] =>
                /\ <<stashes, files, smx, readers>>' = <<stashes, files, smx, readers>>
                /\ <<ring, pos, s>>' = <<ring, pos, s>>
                /\ pc[t] = "buf_do" => snap'[t] = Traversal(ring, pos)]_vars

\* C21 witness: the buffer was answered as it was when Do ran, an event was
\* added since, and stashes exist in the index and in the directory.
C21_Witness ==
    \E t \in HttpThreads :
        /\ pc[t] = "done"
        /\ resp[t].code = StatusOK
        /\ resp[t].body # <<>>
        /\ snap[t] # Traversal(ring, pos)
        /\ DOMAIN files # {}
        /\ \E n \in DOMAIN stashes : n >= FirstSecond

\* ------------------------------------------------------- capacity 0 property
\* C22: a buffer built with capacity 0 is never used: no call of Add or Do
\* is under way on it and its Size is never asked for (it stays unusable).
C22_NoCallOnCapacityZero ==
    bufferSize = 0 => \A t \in Threads : pc[t] = "idle"

\* ------------------------------------------------- trigger atomicity properties
\* C23: no two triggers succeed with the same name: of the calls that took
\* one name from the clock, at most one returns without error.
C23_NoTwoTriggersSucceedWithOneName ==
    \A t, u \in HttpThreads \cup AutoThreads :
        (t # u /\ name[t] # Nil /\ err[t] = "nil" /\ err[u] = "nil") =>
            name[t] # name[u]

\* C24: a trigger whose name is in the index changes nothing: none of its
\* steps purges a stash, alters an entry of the index or touches a payload
\* file, and its existence test answers "already exists".
C24_KnownNameTriggerChangesNothing ==
    [][\A t \in HttpThreads \cup AutoThreads :
          (/\ pc[t] \in {"purge", "create_check"}
           /\ pc'[t] # pc[t]
           /\ name[t] \in DOMAIN stashes) =>
              /\ stashes' = stashes
              /\ files' = files
              /\ pc[t] = "create_check" => err'[t] = "exists"]_vars

\* --------------------------------------------------------- retention properties
\* C25: after any sequence of triggers issued one after the other, over HTTP
\* or by CreateBufferStash, at most maxStashes stashes are known.
C25_RetentionOnEveryPath ==
    Cardinality(DOMAIN stashes) <= maxStashes

\* C26: with any number of POST /stashes served concurrently, the index
\* never holds more than maxStashes names, and neither does the directory.
C26_ConcurrentPostsKeepBound ==
    /\ Cardinality(DOMAIN stashes) \in 0..maxStashes
    /\ Cardinality(DOMAIN files) \in 0..maxStashes

\* ------------------------------------------------ persistence and ingestion
\* C27: while the payload of a stash is being created or written, the
\* ingestion loop is not held up: it can receive the next object or go on
\* handling and adding the one it has.
C27_PersistingNeverBlocksIngestion ==
    (running /\ \E t \in Threads : pc[t] \in {"create_file", "stash_do", "create_write"}) =>
        \E u \in AutoThreads :
            ENABLED \/ \E o \in Objects : Receive(u, o)
                    \/ HandleType(u)
                    \/ \E accepts \in BOOLEAN : HandleFilter(u, accepts)
                    \/ AddLock(u)
                    \/ AddIndex(u)
                    \/ AddStore(u)
                    \/ \E passes \in BOOLEAN : HandleAction(u, passes)

\* C28: the persistence of a triggered stash runs off the calling path: the
\* goroutine that creates and writes the payload is not one whose caller
\* still waits for the answer, so the name has been answered (201) while
\* the stash is Started.
C28_PersistenceOffTheCallingPath ==
    \A t \in HttpThreads :
        pc[t] \in {"create_file", "stash_do", "create_write"} =>
            /\ stashes[name[t]] = StashStarted
            /\ resp[t] = [code |-> StatusCreated, body |-> name[t]]

\* ------------------------------------------------------ failed stash property
\* C29: a stash whose status is Failed has no payload file in the stash
\* directory, so a server started on that directory does not register it.
C29_FailedStashHasNoFile ==
    \A n \in DOMAIN stashes :
        stashes[n] = StashFailed =>
            /\ n \notin DOMAIN files
            /\ n \notin DOMAIN LoadExistingFileStashes(files)

\* ------------------------------------------------- callback isolation property
\* C30: a completion callback that fails does not keep the others from
\* running: as long as callbacks remain to be called for a stash, the next
\* one can be called, and the stash its goroutine holds stays Complete.
C30_CallbackFailureIsIsolated ==
    \A k \in DOMAIN tasks :
        (tasks[k].owner = "none" /\ tasks[k].i < Len(callbacks)) =>
            /\ ENABLED ExecWhileAlive(k)
            /\ tasks[k].status = StashComplete

\* ------------------------------------------------------- progress properties
\* C31: a stash recorded Started reaches Complete or Failed, given that the
\* storage calls return and goroutines are scheduled; until then its entry
\* stays in the index as Started: nothing removes or cancels it.
C31_StartedReachesTerminal ==
    /\ \A n \in Names :
          (n \in DOMAIN stashes /\ stashes[n] = StashStarted)
              ~> (n \in DOMAIN stashes /\ stashes[n] \in {StashComplete, StashFailed})
    /\ [][\A n \in DOMAIN stashes :
             stashes[n] = StashStarted =>
                /\ n \in DOMAIN stashes'
                /\ stashes'[n] \in {StashStarted, StashComplete, StashFailed}]_vars

\* C31 witness: one stash ended Failed and another Complete, each after
\* having been recorded Started, while the producer holds the buffer lock.
C31_Witness ==
    /\ \E n \in DOMAIN stashes : n >= FirstSecond /\ stashes[n] = StashFailed
    /\ \E n \in DOMAIN stashes : n >= FirstSecond /\ stashes[n] = StashComplete
    /\ mx \in Producers

\* ----------------------------------------------------- label lookup property
\* C32: for an event whose involved object is of a kind without label lookup,
\* or whose lookup fails, every filter with labels counts as not matching and
\* the other filters decide: the event is accepted iff some filter without
\* labels matches it.
C32_UnmatchableLabelRuleLeavesOthersToDecide ==
    (/\ accepted # <<>>
     /\ filters # <<>>
     /\ inEvent.kind \notin SupportedKinds \/ inEvent.getFails) =>
        accepted[1] = (\E j \in DOMAIN filters :
                          /\ filters[j].labels = <<>>
                          /\ RuleMatches(filters[j], inEvent))

\* ------------------------------------------------------- stash trigger property
\* C33: an accepted event triggers a stash iff (the trigger's event type is
\* unset or is the event's type) and (the trigger has no filters or some
\* filter matches the event), where a trigger with neither event type nor
\* filters means type Warning; without a trigger, iff stashOnWarningEvents is
\* set and the event is a Warning.
C33_TriggerIsTypeAndRuleSet ==
    accepted # <<>> =>
        accepted[1] =
            IF cfg.hasTrigger
                THEN LET eventType == IF cfg.eventType = "" /\ cfg.eventFilters = <<>>
                                          THEN EventTypeWarning ELSE cfg.eventType
                     IN  /\ eventType = "" \/ eventType = inEvent.type
                         /\ \/ cfg.eventFilters = <<>>
                            \/ \E i \in DOMAIN cfg.eventFilters :
                                  RuleMatches(cfg.eventFilters[i], inEvent)
                ELSE cfg.stashOnWarnings /\ inEvent.type = EventTypeWarning

\* C34 as stated: when the event stream is closed, or Stop is called on a
\* running collector, the loop ends, and from then on the buffer holds
\* exactly the contents it had when the loop ended, the process is there to
\* serve them through Size, Do, Stash and GET /buffer, and the stash index
\* is the one the loop left.
C34_BufferServesAfterTermination ==
    ~running =>
        /\ ~Exited
        /\ ring = run.ring
        /\ pos = run.pos
        /\ s = run.s
        /\ stashes = run.stashes

\* C35: retention counts every known stash whatever its status (Complete,
\* Failed, or recovered at startup) and removes the entries with the
\* smallest names first: a step of purgeOldStashes takes out of the index
\* exactly the len - (maxStashes - 1) smallest names, with their files, and
\* no other step takes an entry out, so that a Failed stash leaves the
\* index only when the retention count purges it.
C35_RetentionIgnoresStatus ==
    [][LET removed == DOMAIN stashes \ DOMAIN stashes'
           excess == Cardinality(DOMAIN stashes) - (maxStashes - 1)
           smallest == {n \in DOMAIN stashes :
                           Cardinality({m \in DOMAIN stashes : m < n}) < excess}
       IN  IF \E t \in Threads : pc[t] = "purge" /\ pc'[t] # "purge"
             THEN /\ removed = smallest
                  /\ DOMAIN files' = DOMAIN files \ smallest
                  /\ \A n \in DOMAIN stashes' : stashes'[n] = stashes[n]
             ELSE removed = {}]_vars

\* a purge has just removed the Failed stash of the trigger a1 made, the
\* smallest name of the index, and kept a larger name
C35_Witness ==
    /\ \E t \in HttpThreads : pc[t] = "create_lock"
    /\ pc["a1"] = "done"
    /\ ~before["a1"]
    /\ stashStatus["a1"] = StashFailed
    /\ name["a1"] \notin DOMAIN stashes
    /\ \E n \in DOMAIN stashes : n > name["a1"]

\* C36: Add and Do are mutually exclusive: while a Do traversal is running
\* its visitor no Add is past the buffer lock, no step changes the slots,
\* the ring pointer or the index, and the size of the buffer is the size
\* the traversal started with, whatever Add has been issued meanwhile.
C36_AddWaitsForTraversal ==
    /\ [](\A d \in BufThreads :
             pc[d] = "do_visit" =>
                 /\ \A w \in BufThreads : pc[w] \notin {"add_index", "add_store"}
                 /\ Traversal(ring, pos) = snap[d]
                 /\ Size = Len(snap[d]))
    /\ [][(\E d \in BufThreads : pc[d] = "do_visit") =>
              (ring' = ring /\ pos' = pos /\ s' = s)]_vars

\* C36 witness: one event in a buffer of capacity 2, the traversal has run
\* its visitor on it, and the Add of a second event waits; the size is 1.
C36_Witness ==
    \E d, w \in BufThreads :
        /\ bufferSize = 2
        /\ pc[d] = "do_visit"
        /\ visited[d] = <<1>>
        /\ pc[w] = "add_lock"
        /\ arg[w] = 2
        /\ Size = 1

\* C37 as stated: every stash listed with status Complete, created by a
\* trigger or registered by the startup scan, has a payload file in storage
\* at name + ".json", so that GetStash of a Complete stash finds a payload.
C37_CompleteHasPayload ==
    \A n \in DOMAIN stashes : stashes[n] = StashComplete => PayloadExists(n)

\* C38: in every state of the buffer outside the critical section of an
\* Add (which updates the index and then the slot under the buffer lock),
\* the key set of the dedup index equals the set of identities held in
\* the ring slots, and no two slots hold the same identity.
C38_IndexIsRingIdentities ==
    (\A t \in Threads : pc[t] # "add_store") =>
        /\ s = RingIds(ring)
        /\ \A i, j \in DOMAIN ring : (ring[i] # Nil /\ ring[i] = ring[j]) => i = j

\* C38 witness: a full buffer of capacity 2 that has evicted an identity,
\* with the lock free and another Add about to evict again.
C38_Witness ==
    /\ mx = Free
    /\ bufferSize = 2
    /\ Nil \notin Range(ring)
    /\ \E e \in Range(order) : e \notin s
    /\ \E w \in BufThreads : pc[w] = "add_lock" /\ arg[w] \notin s

C40_PurgeStaysInRange ==
    /\ \A t \in HttpThreads :
          pc[t] = "purge" =>
              StashesToDelete(stashes, maxStashes - 1) <= Cardinality(DOMAIN stashes)
    /\ \A t \in HttpThreads : err[t] # "panic"

====
